---- MODULE Spec2Model ----
(***************************************************************************)
(* NeuraScore ML services: the request handlers and background tasks of   *)
(* main.py, the scoring engine of neurascore_engine.py and the insight    *)
(* generator of insight_generator.py.                                     *)
(*                                                                         *)
(* Numbers.  Floats are modelled in fixed point.  A normalised feature is *)
(* an integer in 0..NormScale (1.0 = NormScale).  A pillar score is kept  *)
(* in units of 1/ScoreUnit points, an overall score in units of           *)
(* 1/OverallUnit points, and a percentile rank of a batch of N users in   *)
(* units of 1/(2N) percent, so that the weighted sums and the average     *)
(* rank are exact.                                                         *)
(***************************************************************************)
EXTENDS Integers, Sequences, FiniteSets, TLC

VARIABLES
    processing_status,  \* main.py: the global ProcessingStatus
    tasks,              \* the background tasks added by the handlers, in order
    user_scores,        \* neurascore_engine.user_scores
    insights_cache,     \* insight_generator.insights_cache
    data_processor,     \* data_processor: which frames the global DataProcessor holds
    response,           \* the status code of the last response to a POST
    user_metrics,       \* the per-user feature table the data files yield
    scaler,             \* neurascore_engine.scaler: the MinMaxScaler all scorers use
    scorers,            \* the pillar scorer calls in progress, when run step by step
    data,               \* data_processor.py: the input and the frames of a DataProcessor
                        \* whose methods are followed on their own
    kmeans,             \* the labellings KMeans(random_state=42) has returned, by input
    team_calls,         \* what the calls of get_team_metrics so far returned, in order
    advanced_insights_engine,
                        \* advanced_insights.py: the global AdvancedInsightsEngine, the
                        \* frame its methods are called with and what they returned
    returned            \* the calls of generate_insights, get_insights and
                        \* get_user_scores followed on their own: arguments and result

vars == <<processing_status, tasks, user_scores, insights_cache,
          data_processor, response, user_metrics, scaler, scorers, data,
          kmeans, team_calls, advanced_insights_engine, returned>>

(***************************************************************************)
(* Bounds                                                                  *)
(***************************************************************************)
MaxUsers == 3        \* users in a batch of the scoring specification
MaxFeature == 2      \* largest raw feature value
MaxTasks == 2        \* accepted triggers in one behaviour
MaxPipelineUsers == 2 \* users in the data set of the pipeline specification
NormScale == 100     \* fixed-point resolution of a normalised feature
MaxRawUsers == 2     \* users in a table of arbitrary feature values
MaxLabels == 4       \* subject labels of one user
MaxRecords == 3      \* records in a search log file
MaxSessions == 2     \* session numbers in a search log file
MaxTeamUsers == 4    \* users in a score table whose teams are asked for
MaxTeamCalls == 2    \* calls of get_team_metrics on one engine
MaxPopulation == 45  \* population sizes whose number of teams is computed
MaxAdvancedUsers == 10 \* users in a frame passed to the AdvancedInsightsEngine
MaxScoreLevels == 3  \* distinct score rows in such a frame
MaxInsightUsers == 2 \* users in a score table handed to generate_insights
MaxInsightTeams == 2 \* teams in a team list handed to generate_insights
MaxInsightCalls == 3 \* calls of the InsightGenerator that are followed
MaxPage == 2         \* largest limit and offset passed to get_user_scores

ScoreUnit == NormScale
OverallUnit == 100 * ScoreUnit

(***************************************************************************)
(* Arithmetic helpers                                                      *)
(***************************************************************************)
RECURSIVE SumSeq(_)
SumSeq(s) == IF s = <<>> THEN 0 ELSE Head(s) + SumSeq(Tail(s))

\* the sequence f with every element evaluated once
Tuple(f) == SubSeq(f, 1, Len(f))

MinOf(S) == CHOOSE x \in S : \A y \in S : x <= y
MaxOf(S) == CHOOSE x \in S : \A y \in S : x >= y

\* numpy.log1p in thousandths, for the arguments 0..40
Log1pMilli ==
    <<0, 693, 1099, 1386, 1609, 1792, 1946, 2079, 2197, 2303, 2398, 2485, 2565,
      2639, 2708, 2773, 2833, 2890, 2944, 2996, 3045, 3091, 3135, 3178, 3219,
      3258, 3296, 3332, 3367, 3401, 3434, 3466, 3497, 3526, 3555, 3584, 3611,
      3638, 3664, 3689, 3714>>

\* float('nan') and -inf, kept apart from every number of the model
NaN == -1000000
NegInf == -2000000

\* numpy.log1p: nan below -1 (a RuntimeWarning, no exception), -inf at -1
Log1p(x) ==
    IF x = NaN \/ x < -1 THEN NaN
    ELSE IF x = -1 THEN NegInf
    ELSE Log1pMilli[x + 1]

(***************************************************************************)
(* neurascore_engine.py                                                    *)
(***************************************************************************)
\* NeuraScoreEngine.__init__: pillar weights, in percent
pillar_weights ==
    [discovery |-> 30, collaboration |-> 25, documentation |-> 25, reuse |-> 20]

\* DataFrame column selection df[[c1, ..., ck]]: KeyError when a column is absent
HasColumns(table, cols) ==
    \A i \in 1..Len(table) : \A k \in 1..Len(cols) : cols[k] \in DOMAIN table[i]

Column(table, col) == Tuple([i \in 1..Len(table) |-> table[i][col]])

\* DataFrame.fillna(0) on one column: a missing value is nan
FillNa(x) == IF x = NaN THEN 0 ELSE x
FilledColumn(table, col) == Tuple([i \in 1..Len(table) |-> FillNa(table[i][col])])

\* check_array(force_all_finite='allow-nan'): an infinity raises ValueError
AllFinite(columns) ==
    \A k \in 1..Len(columns) : \A i \in 1..Len(columns[k]) : columns[k][i] # NegInf

ColumnValues(column) == {column[i] : i \in 1..Len(column)}

\* MinMaxColumn dividing by the range as it is: 0/0 on a constant column
MinMaxColumn_nan(column) ==
    LET fitted == ColumnValues(column) \ {NaN}
    IN  IF fitted = {}
        THEN Tuple([i \in 1..Len(column) |-> NaN])
        ELSE LET lo == MinOf(fitted)
                 hi == MaxOf(fitted)
             IN  Tuple([i \in 1..Len(column) |->
                    IF column[i] = NaN \/ hi = lo THEN NaN
                    ELSE ((column[i] - lo) * NormScale) \div (hi - lo)])

\* MinMaxScaler.fit_transform on one column; a zero range scales by 1
\* (_handle_zeros_in_scale); nan is left out of the fit (nanmin, nanmax)
\* and kept by the transform
MinMaxColumn(column) ==
    LET fitted == ColumnValues(column) \ {NaN}
    IN  IF fitted = {}
        THEN Tuple([i \in 1..Len(column) |-> NaN])
        ELSE LET lo == MinOf(fitted)
                 hi == MaxOf(fitted)
             IN  Tuple([i \in 1..Len(column) |->
                    IF column[i] = NaN THEN NaN
                    ELSE IF hi = lo THEN 0
                    ELSE ((column[i] - lo) * NormScale) \div (hi - lo)])

\* np.clip(x, 0, 100): nan stays nan
Clip(x) ==
    IF x = NaN THEN NaN
    ELSE IF x < 0 THEN 0
    ELSE IF x > 100 * ScoreUnit THEN 100 * ScoreUnit
    ELSE x

\* np.dot(normalized, weights) * 100 for row i: nan if a term is nan
Dot(columns, weights, i) ==
    IF \E k \in 1..Len(weights) : columns[k][i] = NaN
    THEN NaN
    ELSE SumSeq(Tuple([k \in 1..Len(weights) |-> weights[k] * columns[k][i]]))

\* np.dot(normalized, weights) * 100, clipped; columns are already transformed
WeightedScores(columns, weights) ==
    Tuple([i \in 1..Len(columns[1]) |-> Clip(Dot(columns, weights, i))])

\* Zeros returning np.full(len(user_metrics), np.nan)
Zeros_nan(table) == Tuple([i \in 1..Len(table) |-> NaN])

\* np.zeros(len(user_metrics))
Zeros(table) == Tuple([i \in 1..Len(table) |-> 0])

discovery_features ==
    <<"total_sessions", "total_interactions", "total_unique_records",
      "unique_subjects", "subject_diversity_score">>
discovery_weights == <<20, 25, 25, 15, 15>>

\* lines 85-94: the selected columns after fillna(0) and np.log1p
discovery_columns(table) ==
    Tuple([k \in 1..Len(discovery_features) |->
        Tuple([i \in 1..Len(table) |->
            Log1p(FillNa(table[i][discovery_features[k]]))])])

\* lines 81-107; every exception ends in the except branch (zeros)
_calculate_discovery_scores(table) ==
    IF ~HasColumns(table, discovery_features) \/ Len(table) = 0
    THEN Zeros(table)
    ELSE LET log_features == discovery_columns(table)
         IN  IF ~AllFinite(log_features)
             THEN Zeros(table)
             ELSE WeightedScores(
                    Tuple([k \in 1..Len(discovery_features) |->
                        MinMaxColumn(log_features[k])]),
                    discovery_weights)

collaboration_features ==
    <<"sessions_per_day", "avg_interactions_per_session", "total_unique_records">>
collaboration_weights == <<40, 30, 30>>

_calculate_collaboration_scores(table) ==
    IF ~HasColumns(table, collaboration_features) \/ Len(table) = 0
    THEN Zeros(table)
    ELSE WeightedScores(
            Tuple([k \in 1..Len(collaboration_features) |->
                MinMaxColumn(FilledColumn(table, collaboration_features[k]))]),
            collaboration_weights)

documentation_features ==
    <<"avg_event_diversity", "subject_diversity_score", "avg_session_duration">>
documentation_weights == <<40, 40, 20>>

_calculate_documentation_scores(table) ==
    IF ~HasColumns(table, documentation_features) \/ Len(table) = 0
    THEN Zeros(table)
    ELSE WeightedScores(
            Tuple([k \in 1..Len(documentation_features) |->
                MinMaxColumn(FilledColumn(table, documentation_features[k]))]),
            documentation_weights)

\* the columns the reuse scorer keeps (line 161) and the ones it then reads (169, 172)
reuse_selected ==
    <<"total_sessions", "activity_span_days", "sessions_per_day",
      "avg_unique_records_per_session">>
reuse_read == <<"total_sessions", "total_unique_records">>
reuse_weights == <<50, 30, 20>>

\* user_metrics[[...]].fillna(0)
SelectColumns(table, cols) ==
    Tuple([i \in 1..Len(table) |->
        [c \in {cols[k] : k \in 1..Len(cols)} |-> FillNa(table[i][c])]])

\* features['total_unique_records'] is read from the four selected columns:
\* the KeyError is caught and the scorer returns zeros
_calculate_reuse_scores(table) ==
    IF ~HasColumns(table, reuse_selected) \/ Len(table) = 0
    THEN Zeros(table)
    ELSE LET features == SelectColumns(table, reuse_selected)
         IN  IF ~HasColumns(features, reuse_read)
             THEN Zeros(table)
             ELSE WeightedScores(
                    << MinMaxColumn(Tuple([i \in 1..Len(table) |->
                          (features[i]["total_sessions"] * NormScale)
                             \div (features[i]["total_unique_records"] + 1)])),
                       MinMaxColumn(Column(features, "sessions_per_day")),
                       MinMaxColumn(Column(features, "activity_span_days")) >>,
                    reuse_weights)

\* line 22: the scaler before any fit
Unfitted == [fitted_by |-> "none", data_min |-> <<>>, data_range |-> <<>>]

\* no scorer call is in progress
NoScorers == <<>>

\* MinMaxScaler.fit: the scaler is reset and holds the minimum and the range
\* of every column; `by` is the call that fitted it
\* (MinMaxScaler.feature_names_in_)
Fit(by, columns) ==
    [fitted_by |-> by,
     data_min |-> Tuple([k \in 1..Len(columns) |->
                      LET fitted == ColumnValues(columns[k]) \ {NaN}
                      IN  IF fitted = {} THEN NaN ELSE MinOf(fitted)]),
     data_range |-> Tuple([k \in 1..Len(columns) |->
                      LET fitted == ColumnValues(columns[k]) \ {NaN}
                      IN  IF fitted = {} THEN NaN ELSE MaxOf(fitted) - MinOf(fitted)])]

\* MinMaxScaler.transform with the parameters the scaler holds
Transform(sc, columns) ==
    Tuple([k \in 1..Len(columns) |->
        Tuple([i \in 1..Len(columns[k]) |->
            IF columns[k][i] = NaN \/ sc.data_range[k] = NaN THEN NaN
            ELSE IF sc.data_range[k] = 0
                 THEN (columns[k][i] - sc.data_min[k]) * NormScale
                 ELSE ((columns[k][i] - sc.data_min[k]) * NormScale)
                         \div sc.data_range[k]])])

\* the columns a scorer hands to the scaler
ScalerInput(pillar, table) ==
    CASE pillar = "discovery" -> discovery_columns(table)
      [] pillar = "collaboration" ->
            Tuple([k \in 1..Len(collaboration_features) |->
                FilledColumn(table, collaboration_features[k])])
      [] pillar = "documentation" ->
            Tuple([k \in 1..Len(documentation_features) |->
                FilledColumn(table, documentation_features[k])])

\* self.scaler after the four scorers ran one after another (lines 44-47):
\* the reuse scorer fails before its fit, so the documentation scorer is
\* the last to fit
ScalerAfter(table) ==
    IF Len(table) > 0 /\ HasColumns(table, documentation_features)
       /\ AllFinite(ScalerInput("documentation", table))
    THEN Fit("documentation", ScalerInput("documentation", table))
    ELSE IF Len(table) > 0 /\ HasColumns(table, collaboration_features)
            /\ AllFinite(ScalerInput("collaboration", table))
    THEN Fit("collaboration", ScalerInput("collaboration", table))
    ELSE IF Len(table) > 0 /\ HasColumns(table, discovery_features)
            /\ AllFinite(ScalerInput("discovery", table))
    THEN Fit("discovery", ScalerInput("discovery", table))
    ELSE scaler

\* a pillar scorer took its except branch
ScorerFailed(table) ==
    \/ ~HasColumns(table, discovery_features)
    \/ ~AllFinite(discovery_columns(table))
    \/ ~HasColumns(table, collaboration_features)
    \/ ~HasColumns(table, documentation_features)
    \/ ~HasColumns(table, reuse_selected)
    \/ ~HasColumns(SelectColumns(table, reuse_selected), reuse_read)
    \/ Len(table) = 0

\* OverallScore with the discovery and collaboration weights exchanged
OverallScore_swapped(d, c, doc, r) ==
      d * pillar_weights.collaboration
    + c * pillar_weights.discovery
    + doc * pillar_weights.documentation
    + r * pillar_weights.reuse

\* lines 59-64: the weighted sum, in units of 1/OverallUnit; nan when a
\* pillar score is nan
OverallScore(d, c, doc, r) ==
    IF NaN \in {d, c, doc, r}
    THEN NaN
    ELSE   d * pillar_weights.discovery
         + c * pillar_weights.collaboration
         + doc * pillar_weights.documentation
         + r * pillar_weights.reuse

\* PercentileRank with rank(method='max'): ties take the highest rank
PercentileRank_max(overall, i) ==
    LET less == Cardinality({j \in 1..Len(overall) : overall[j] < overall[i]})
        same == Cardinality({j \in 1..Len(overall) : overall[j] = overall[i]})
    IN  100 * 2 * (less + same)

\* PercentileRank with rank(method='first'): ties ranked in row order
PercentileRank_first(overall, i) ==
    LET less == Cardinality({j \in 1..Len(overall) : overall[j] < overall[i]})
        first == Cardinality({j \in 1..i : overall[j] = overall[i]})
    IN  100 * 2 * (less + first)

\* Series.rank(pct=True) * 100 with the default method 'average':
\* the numerator of the percentile over the denominator 2 * N, N the number
\* of rows that have a score; a nan score is not ranked and gets nan
PercentileRank(overall, i) ==
    LET less == Cardinality({j \in 1..Len(overall) :
                                overall[j] # NaN /\ overall[j] < overall[i]})
        same == Cardinality({j \in 1..Len(overall) : overall[j] = overall[i]})
    IN  IF overall[i] = NaN THEN NaN ELSE 100 * (2 * less + same + 1)

\* calculate_all_scores, lines 43-75, on a feature table that has user_id
calculate_all_scores(table, t) ==
    LET d == _calculate_discovery_scores(table)
        c == _calculate_collaboration_scores(table)
        doc == _calculate_documentation_scores(table)
        r == _calculate_reuse_scores(table)
        overall == Tuple([i \in 1..Len(table) |->
                            OverallScore(d[i], c[i], doc[i], r[i])])
    IN  Tuple([i \in 1..Len(table) |->
            [user_id |-> table[i].user_id,
             discovery_score |-> d[i],
             collaboration_score |-> c[i],
             documentation_score |-> doc[i],
             reuse_score |-> r[i],
             overall_score |-> overall[i],
             percentile_rank |-> PercentileRank(overall, i),
             computed_at |-> t]])

\* _simulate_team_assignments, lines 258-261
team_names ==
    <<"Data Explorers", "Analytics Team", "Research Group", "Insights Squad",
      "Data Scientists", "Business Intelligence", "Data Engineers", "ML Team">>

\* line 265: f'team_{i+1:02d}', the number in two digits at least (no
\* cluster index reaches 99: line 249 caps n_teams at 8)
Digit == <<"0", "1", "2", "3", "4", "5", "6", "7", "8", "9">>
team_id_of(i) == "team_" \o Digit[((i + 1) \div 10) + 1] \o Digit[((i + 1) % 10) + 1]

\* lines 249-251
NumTeams(n) ==
    LET k == IF n \div 5 < 8 THEN n \div 5 ELSE 8
    IN  IF k < 2 THEN 2 ELSE k

\* line 246: the rows KMeans is fitted on
PillarPoint(row) ==
    <<row.discovery_score, row.collaboration_score,
      row.documentation_score, row.reuse_score>>

Features(scores) ==
    Tuple([u \in 1..Len(scores) |-> PillarPoint(scores[u])])

\* KMeans(n_clusters).fit_predict, line 254: the labellings it can return.
\* Rows with equal pillar scores get the label of the same centre, and as
\* many clusters are used as there are distinct rows, up to n_clusters
KMeansLabels(features, n_clusters) ==
    LET distinct == Cardinality({features[u] : u \in 1..Len(features)})
        used == IF distinct < n_clusters THEN distinct ELSE n_clusters
    IN  {l \in [1..Len(features) -> 0..(n_clusters - 1)] :
            /\ \A u, v \in 1..Len(features) :
                  features[u] = features[v] => l[u] = l[v]
            /\ Cardinality({l[u] : u \in 1..Len(features)}) = used}

\* check_array in KMeans.fit: a nan among the features raises ValueError
HasNaN(features) ==
    \E u \in 1..Len(features) : \E k \in 1..Len(features[u]) : features[u][k] = NaN

\* the same, with no random_state: every call draws its own centres
fit_predict_unseeded(features, n_clusters) ==
    IF Len(features) < n_clusters \/ HasNaN(features)
    THEN {<<>>}
    ELSE KMeansLabels(features, n_clusters)

\* lines 253-254, random_state=42: the labelling is a function of the
\* rows, so a table that was clustered before gets the labelling it got
\* then; <<>> stands for the ValueError KMeans raises when there are fewer
\* rows than clusters or a feature is nan
fit_predict(features, n_clusters) ==
    IF Len(features) < n_clusters \/ HasNaN(features)
    THEN {<<>>}
    ELSE IF \E e \in kmeans : e.features = features /\ e.n_clusters = n_clusters
         THEN {e.labels : e \in {f \in kmeans : /\ f.features = features
                                                /\ f.n_clusters = n_clusters}}
         ELSE KMeansLabels(features, n_clusters)

\* what fit_predict leaves known about the seeded run
KMeansAfter(features, n_clusters, labels) ==
    IF labels = <<>>
    THEN kmeans
    ELSE kmeans \cup {[features |-> features, n_clusters |-> n_clusters,
                       labels |-> Tuple(labels)]}

\* _simulate_team_assignments, lines 239-274: the dict in insertion order;
\* the except branch (lines 272-274) yields the empty dict
_simulate_team_assignments(scores, labels) ==
    IF labels = <<>>
    THEN <<>>
    ELSE Tuple([k \in 1..NumTeams(Len(scores)) |->
            [team_id |-> team_id_of(k - 1),
             name |-> team_names[k],
             members |-> Tuple([j \in 1..Cardinality({u \in 1..Len(scores) : labels[u] = k - 1}) |->
                            scores[CHOOSE u \in 1..Len(scores) :
                                /\ labels[u] = k - 1
                                /\ Cardinality({v \in 1..u : labels[v] = k - 1}) = j].user_id])]])

\* get_team_metrics, lines 212-230: one entry per non-empty team; the means
\* are kept as sums over member_count
TeamMetricsOf(scores, teams) ==
    LET team(k) ==
            LET ids == {teams[k].members[j] : j \in 1..Len(teams[k].members)}
                members == {u \in 1..Len(scores) : scores[u].user_id \in ids}
            IN  [team_id |-> teams[k].team_id,
                 team_name |-> teams[k].name,
                 member_count |-> Cardinality(members),
                 members |-> {scores[u].user_id : u \in members},
                 sum_neurascore |->
                    SumSeq(Tuple([u \in 1..Len(scores) |->
                        IF u \in members THEN scores[u].overall_score ELSE 0])),
                 sum_discovery |->
                    SumSeq(Tuple([u \in 1..Len(scores) |->
                        IF u \in members THEN scores[u].discovery_score ELSE 0])),
                 sum_collaboration |->
                    SumSeq(Tuple([u \in 1..Len(scores) |->
                        IF u \in members THEN scores[u].collaboration_score ELSE 0])),
                 sum_documentation |->
                    SumSeq(Tuple([u \in 1..Len(scores) |->
                        IF u \in members THEN scores[u].documentation_score ELSE 0])),
                 sum_reuse |->
                    SumSeq(Tuple([u \in 1..Len(scores) |->
                        IF u \in members THEN scores[u].reuse_score ELSE 0]))]
    IN  SelectSeq(Tuple([k \in 1..Len(teams) |-> team(k)]),
                  LAMBDA tm : tm.member_count > 0)

(***************************************************************************)
(* insight_generator.py                                                    *)
(***************************************************************************)
\* _load_recommendation_templates, lines 22-91
recommendation_templates ==
    [low_discovery |->
        [title |-> "Improve Data Discovery",
         action_items |-> <<"Organize data discovery workshops",
                            "Create guided data exploration tutorials",
                            "Implement data catalog search training",
                            "Set up regular Dataset of the Week showcases">>,
         impact_level |-> "high"],
     low_collaboration |->
        [title |-> "Enhance Team Collaboration",
         action_items |-> <<"Establish cross-team data sharing protocols",
                            "Create collaborative workspaces for data projects",
                            "Implement peer review processes for analyses",
                            "Set up regular data collaboration meetings">>,
         impact_level |-> "medium"],
     low_documentation |->
        [title |-> "Improve Documentation Quality",
         action_items |-> <<"Develop documentation standards and templates",
                            "Provide metadata quality training sessions",
                            "Implement documentation review processes",
                            "Create automated documentation quality checks">>,
         impact_level |-> "high"],
     low_reuse |->
        [title |-> "Increase Data Reuse",
         action_items |-> <<"Create dataset recommendation system",
                            "Highlight frequently used datasets",
                            "Develop data reuse best practices guide",
                            "Implement usage analytics and insights">>,
         impact_level |-> "medium"],
     high_performer |->
        [title |-> "Leverage High Performers",
         action_items |-> <<"Designate as data champions or mentors",
                            "Create knowledge sharing sessions",
                            "Develop advanced training programs",
                            "Establish data literacy ambassador roles">>,
         impact_level |-> "low"],
     team_imbalance |->
        [title |-> "Address Team Skill Imbalances",
         action_items |-> <<"Implement peer mentoring programs",
                            "Provide targeted skill development training",
                            "Create balanced project team compositions",
                            "Establish skill-sharing initiatives">>,
         impact_level |-> "high"]]

\* lines 304-311
_calculate_priority_score(impact_level) ==
    CASE impact_level = "high" -> 90
      [] impact_level = "medium" -> 60
      [] impact_level = "low" -> 30
      [] OTHER -> 50

\* _create_insight, lines 286-302; id (uuid4) and created_at are filled in by
\* StampInsights. insight_type, the template the insight was made from, is
\* kept beside the fields of the dict, whose 'type' is always 'recommendation'
_create_insight(insight_type, target_entity, target_id, description) ==
    [insight_type |-> insight_type,
     title |-> recommendation_templates[insight_type].title,
     description |-> description,
     impact_level |-> recommendation_templates[insight_type].impact_level,
     target_entity |-> target_entity,
     target_id |-> target_id,
     action_items |-> recommendation_templates[insight_type].action_items,
     priority_score |->
        _calculate_priority_score(recommendation_templates[insight_type].impact_level)]

\* str(n) of the f-strings at lines 149 and 159, for a count below 100
Str(n) ==
    IF n < 10 THEN Digit[n + 1]
    ELSE Digit[(n \div 10) + 1] \o Digit[(n % 10) + 1]

\* lines 149, 159 and 169: f"group_{len(...)}_users"
group_id(n) == "group_" \o Str(n) \o "_users"

PillarMax(row) == MaxOf({row.discovery_score, row.collaboration_score,
                         row.documentation_score, row.reuse_score})
PillarMin(row) == MinOf({row.discovery_score, row.collaboration_score,
                         row.documentation_score, row.reuse_score})

\* _generate_user_insights with high performers taken above 80 only
_generate_user_insights_above(scores) ==
    LET low == Cardinality({u \in 1..Len(scores) :
                    scores[u].discovery_score < 40 * ScoreUnit})
        high == Cardinality({u \in 1..Len(scores) :
                    scores[u].overall_score > 80 * OverallUnit})
        uneven == Cardinality({u \in 1..Len(scores) :
                    PillarMax(scores[u]) - PillarMin(scores[u]) > 40 * ScoreUnit})
    IN  (IF low > 0
         THEN <<_create_insight("low_discovery", "user", group_id(low),
                                <<low, "users showing low data discovery activity">>)>>
         ELSE <<>>)
        \o
        (IF high > 0
         THEN <<_create_insight("high_performer", "user", group_id(high),
                                <<high, "users demonstrating exceptional data literacy">>)>>
         ELSE <<>>)
        \o
        (IF uneven > 0
         THEN <<_create_insight("team_imbalance", "user", group_id(uneven),
                                <<uneven, "users showing uneven skill development">>)>>
         ELSE <<>>)

\* _generate_user_insights, lines 138-175
_generate_user_insights(scores) ==
    LET low == Cardinality({u \in 1..Len(scores) :
                    scores[u].discovery_score < 40 * ScoreUnit})
        high == Cardinality({u \in 1..Len(scores) :
                    scores[u].overall_score >= 80 * OverallUnit})
        uneven == Cardinality({u \in 1..Len(scores) :
                    PillarMax(scores[u]) - PillarMin(scores[u]) > 40 * ScoreUnit})
    IN  (IF low > 0
         THEN <<_create_insight("low_discovery", "user", group_id(low),
                                <<low, "users showing low data discovery activity">>)>>
         ELSE <<>>)
        \o
        (IF high > 0
         THEN <<_create_insight("high_performer", "user", group_id(high),
                                <<high, "users demonstrating exceptional data literacy">>)>>
         ELSE <<>>)
        \o
        (IF uneven > 0
         THEN <<_create_insight("team_imbalance", "user", group_id(uneven),
                                <<uneven, "users showing uneven skill development">>)>>
         ELSE <<>>)

\* _generate_team_insights for one team with the rules chained by elif: the
\* first matching rule only
TeamInsights_exclusive(team) ==
    IF team.sum_neurascore < 50 * OverallUnit * team.member_count
    THEN <<_create_insight("low_discovery", "team", team.team_id,
                <<"Team", team.team_name, "shows below-average data literacy">>)>>
    ELSE IF team.sum_collaboration < 40 * ScoreUnit * team.member_count
    THEN <<_create_insight("low_collaboration", "team", team.team_id,
                <<"Team", team.team_name, "needs improved collaboration practices">>)>>
    ELSE IF team.sum_neurascore >= 75 * OverallUnit * team.member_count
    THEN <<_create_insight("high_performer", "team", team.team_id,
                <<"Team", team.team_name, "demonstrates excellent data literacy">>)>>
    ELSE <<>>

\* _generate_team_insights, lines 187-222, for one team
TeamInsights(team) ==
    (IF team.sum_neurascore < 50 * OverallUnit * team.member_count
     THEN <<_create_insight("low_discovery", "team", team.team_id,
                <<"Team", team.team_name, "shows below-average data literacy">>)>>
     ELSE <<>>)
    \o
    (IF team.sum_collaboration < 40 * ScoreUnit * team.member_count
     THEN <<_create_insight("low_collaboration", "team", team.team_id,
                <<"Team", team.team_name, "needs improved collaboration practices">>)>>
     ELSE <<>>)
    \o
    (IF team.sum_neurascore >= 75 * OverallUnit * team.member_count
     THEN <<_create_insight("high_performer", "team", team.team_id,
                <<"Team", team.team_name, "demonstrates excellent data literacy">>)>>
     ELSE <<>>)

RECURSIVE _generate_team_insights(_)
_generate_team_insights(team_metrics) ==
    IF team_metrics = <<>> THEN <<>>
    ELSE TeamInsights(Head(team_metrics)) \o _generate_team_insights(Tail(team_metrics))

\* Series.std() > 25 (sample standard deviation, NaN for fewer than two
\* rows), on overall scores rounded down to tenths of a point
StdAbove25(scores) ==
    LET n == Len(scores)
        x == Tuple([u \in 1..n |-> scores[u].overall_score \div (OverallUnit \div 10)])
        s == SumSeq(x)
    IN  /\ n >= 2
        /\ SumSeq(Tuple([u \in 1..n |-> (n * x[u] - s) * (n * x[u] - s)]))
              > 250 * 250 * n * n * (n - 1)

ColumnSum(scores, col) == SumSeq(Column(scores, col))

\* _generate_organizational_insights with the documentation rule at <= 50
_generate_organizational_insights_inclusive(scores) ==
    LET n == Len(scores)
    IN  (IF n > 0 /\ ColumnSum(scores, "overall_score") < 60 * OverallUnit * n
         THEN <<_create_insight("low_discovery", "organization", "org_001",
                    <<"Organization-wide data literacy needs improvement">>)>>
         ELSE <<>>)
        \o
        (IF StdAbove25(scores)
         THEN <<_create_insight("team_imbalance", "organization", "org_001",
                    <<"High variability in data literacy across the organization">>)>>
         ELSE <<>>)
        \o
        (IF n > 0 /\ ColumnSum(scores, "documentation_score") <= 50 * ScoreUnit * n
         THEN <<_create_insight("low_documentation", "organization", "org_001",
                    <<"Organization-wide documentation quality needs attention">>)>>
         ELSE <<>>)
        \o
        (IF n > 0 /\ ColumnSum(scores, "reuse_score") < 45 * ScoreUnit * n
         THEN <<_create_insight("low_reuse", "organization", "org_001",
                    <<"Low data reuse patterns across organization">>)>>
         ELSE <<>>)

\* _generate_organizational_insights, lines 235-280; the mean of an empty
\* column is NaN and compares false
_generate_organizational_insights(scores) ==
    LET n == Len(scores)
    IN  (IF n > 0 /\ ColumnSum(scores, "overall_score") < 60 * OverallUnit * n
         THEN <<_create_insight("low_discovery", "organization", "org_001",
                    <<"Organization-wide data literacy needs improvement">>)>>
         ELSE <<>>)
        \o
        (IF StdAbove25(scores)
         THEN <<_create_insight("team_imbalance", "organization", "org_001",
                    <<"High variability in data literacy across the organization">>)>>
         ELSE <<>>)
        \o
        (IF n > 0 /\ ColumnSum(scores, "documentation_score") < 50 * ScoreUnit * n
         THEN <<_create_insight("low_documentation", "organization", "org_001",
                    <<"Organization-wide documentation quality needs attention">>)>>
         ELSE <<>>)
        \o
        (IF n > 0 /\ ColumnSum(scores, "reuse_score") < 45 * ScoreUnit * n
         THEN <<_create_insight("low_reuse", "organization", "org_001",
                    <<"Low data reuse patterns across organization">>)>>
         ELSE <<>>)

\* uuid.uuid4() and datetime.now() of _create_insight: a fresh id per insight
StampInsights(insights, t) ==
    Tuple([k \in 1..Len(insights) |->
        [f \in DOMAIN insights[k] \cup {"id", "created_at"} |->
            IF f = "id" THEN <<t, k>>
            ELSE IF f = "created_at" THEN t
            ELSE insights[k][f]]])

\* generate_insights that extends the cached list where line 99 starts an
\* empty one
generate_insights_cached(scores, team_metrics, t) ==
    insights_cache
    \o StampInsights(_generate_user_insights(scores)
                     \o _generate_team_insights(team_metrics)
                     \o _generate_organizational_insights(scores), t)

\* generate_insights, lines 110-126, given the scores and the team metrics:
\* the insights in the order they are generated
generate_insights(scores, team_metrics, t) ==
    StampInsights(_generate_user_insights(scores)
                  \o _generate_team_insights(team_metrics)
                  \o _generate_organizational_insights(scores), t)

\* list.sort(key=priority_score, reverse=True), line 329: a stable sort,
\* equal keys keep their order (by insertion of the last element)
RECURSIVE SortByPriority(_)
SortByPriority(insights) ==
    IF insights = <<>>
    THEN <<>>
    ELSE LET last == insights[Len(insights)]
             front == SortByPriority(SubSeq(insights, 1, Len(insights) - 1))
         IN  SelectSeq(front, LAMBDA i : i.priority_score >= last.priority_score)
             \o <<last>>
             \o SelectSeq(front, LAMBDA i : i.priority_score < last.priority_score)

\* get_insights, lines 320-326: the filters, each skipped for None or ""
FilterInsights(insights, entity_type, entity_id) ==
    SelectSeq(insights,
              LAMBDA i : /\ entity_type # "" => i.target_entity = entity_type
                         /\ entity_id # "" => i.target_id = entity_id)

(***************************************************************************)
(* advanced_insights.py                                                    *)
(***************************************************************************)
\* __init__, lines 23-27, and the module's instance (line 376): an unfitted
\* StandardScaler and no model; user_data is the frame of the calls that
\* are followed, and patterns and trends hold what they returned
AdvancedInsightsEngine ==
    [user_data |-> <<>>, scaler_fitted |-> FALSE, performance_model |-> FALSE,
     patterns |-> <<>>, trends |-> <<>>]

\* line 36
pattern_features ==
    <<"discovery_score", "collaboration_score", "documentation_score", "reuse_score">>

\* lines 37-40: fillna(0) and StandardScaler.fit_transform, a row at a time.
\* Each value is kept as n * x - sum(x), the centred value before the
\* division by the column's standard deviation (0 for a constant column)
X_scaled(user_data) ==
    LET n == Len(user_data)
        sum(col) == SumSeq(Tuple([u \in 1..n |-> FillNa(user_data[u][col])]))
    IN  Tuple([u \in 1..n |->
            Tuple([k \in 1..Len(pattern_features) |->
                n * FillNa(user_data[u][pattern_features[k]]) - sum(pattern_features[k])])])

\* _get_cluster_name, lines 246-258: the first feature with the largest mean;
\* the means of an empty cluster are nan, no comparison with nan is true and
\* max keeps the first feature
cluster_names ==
    [discovery_score |-> "Data Explorers", collaboration_score |-> "Team Players",
     documentation_score |-> "Knowledge Keepers", reuse_score |-> "Efficiency Masters"]

_get_cluster_name(user_data, members) ==
    LET total(k) == SumSeq(Tuple([u \in 1..Len(user_data) |->
                        IF u \in members /\ user_data[u][pattern_features[k]] # NaN
                        THEN user_data[u][pattern_features[k]] ELSE 0]))
        best == IF members = {}
                THEN 1
                ELSE CHOOSE k \in 1..Len(pattern_features) :
                        /\ \A j \in 1..Len(pattern_features) : total(j) <= total(k)
                        /\ \A j \in 1..(k - 1) : total(j) < total(k)
    IN  cluster_names[pattern_features[best]]

\* _generate_pattern_insights, lines 286-297: the largest cluster (the first
\* of the largest) and the number of clusters
_generate_pattern_insights(cluster_analysis) ==
    LET largest == CHOOSE k \in 1..Len(cluster_analysis) :
                      /\ \A j \in 1..Len(cluster_analysis) :
                            cluster_analysis[j].size <= cluster_analysis[k].size
                      /\ \A j \in 1..(k - 1) :
                            cluster_analysis[j].size < cluster_analysis[k].size
    IN  <<<<"Largest user group", cluster_analysis[largest].name,
            cluster_analysis[largest].size>>,
          <<"distinct user behavior patterns", Len(cluster_analysis)>>>>

\* line 43
PatternClusters(n) == IF n \div 5 < 4 THEN n \div 5 ELSE 4

\* analyze_user_patterns, lines 29-72, given the labels of line 45; no
\* statement of lines 36-68 raises on a frame that has the four score columns
analyze_user_patterns(user_data, labels) ==
    IF Len(user_data) < 5
    THEN [error |-> "Insufficient data for pattern analysis"]
    ELSE LET cluster_analysis ==
                Tuple([i \in 1..PatternClusters(Len(user_data)) |->
                    LET members == {u \in 1..Len(user_data) : labels[u] = i - 1}
                    IN  [cluster |-> i - 1,
                         name |-> _get_cluster_name(user_data, members),
                         size |-> Cardinality(members)]])
         IN  [total_users |-> Len(user_data),
              clusters |-> cluster_analysis,
              insights |-> _generate_pattern_insights(cluster_analysis)]

\* RandomForestRegressor.fit, line 92: check_X_y rejects a target with a
\* missing value ("Input y contains NaN."); X was filled at line 88
FitRaises(user_data) ==
    \E u \in 1..Len(user_data) : user_data[u].overall_score = NaN

\* _generate_trend_insights, lines 299-309
_generate_trend_insights(predictions) ==
    LET thirty_day_pred == predictions[CHOOSE k \in 1..Len(predictions) :
                                            predictions[k].days_ahead = 30]
    IN  IF thirty_day_pred.score_change > 0
        THEN <<"Positive trend">>
        ELSE <<"Declining trend">>

\* predict_performance_trends, lines 74-128, given the sums over the users
\* of the scores the forest predicts for 7, 14 and 30 days ahead (lines
\* 96-106, on features perturbed with np.random.normal)
predict_performance_trends(user_data, future_scores) ==
    IF Len(user_data) < 10
    THEN [error |-> "Insufficient data for trend prediction"]
    ELSE IF FitRaises(user_data)
    THEN [error |-> "Input y contains NaN."]
    ELSE LET sum_y == SumSeq(Tuple([u \in 1..Len(user_data) |->
                                        user_data[u].overall_score]))
             days == <<7, 14, 30>>
             predictions ==
                Tuple([k \in 1..3 |->
                    [days_ahead |-> days[k],
                     predicted_sum_score |-> future_scores[k],
                     score_change |-> future_scores[k] - sum_y]])
         IN  [current_sum_score |-> sum_y,
              predictions |-> predictions,
              insights |-> _generate_trend_insights(predictions)]

\* RandomForestRegressor.predict, line 106: every prediction is a mean of
\* training targets, so the sum over the users lies between n times the
\* lowest and n times the highest overall score
FutureScores(user_data) ==
    IF Len(user_data) < 10 \/ FitRaises(user_data)
    THEN {<<>>}
    ELSE LET y == {user_data[u].overall_score : u \in 1..Len(user_data)}
             ends == {Len(user_data) * MinOf(y), Len(user_data) * MaxOf(y)}
         IN  ends \X ends \X ends

(***************************************************************************)
(* data_processor.py: the feature table calculate_user_metrics returns    *)
(***************************************************************************)
\* One row of user_metrics (lines 240-257) for a user with a + 1 sessions on
\* one day, b + 1 interactions on distinct records in each session, sessions
\* of b minutes, and c subject labels
FeatureRow(id, a, b, c) ==
    [user_id |-> id,
     total_sessions |-> a + 1,
     total_interactions |-> (a + 1) * (b + 1),
     avg_interactions_per_session |-> b + 1,
     total_unique_records |-> (a + 1) * (b + 1),
     avg_unique_records_per_session |-> b + 1,
     total_session_time |-> (a + 1) * b,
     avg_session_duration |-> b,
     avg_event_diversity |-> 1 + (IF b > 0 THEN 1 ELSE 0),
     activity_span_days |-> 1,
     sessions_per_day |-> a + 1,
     unique_subjects |-> 2 * c,
     subject_diversity_score |-> c]

\* The profiles a user can have: k encodes (a, b, c) with a and b session
\* and interaction levels in 0..MaxFeature and c in {0, 1}
NumProfiles == 2 * (MaxFeature + 1) * (MaxFeature + 1)
ProfileRow(id, k) ==
    FeatureRow(id, k \div (2 * (MaxFeature + 1)), (k \div 2) % (MaxFeature + 1), k % 2)

\* the feature table of the users with profiles p[1], ..., p[n]: one row
\* per user_id (groupby, line 229)
FeatureTable(p) == Tuple([i \in 1..Len(p) |-> ProfileRow(i, p[i])])

\* the sequences of n profiles
AllProfiles(n) == {Tuple(f) : f \in [1..n -> 0..(NumProfiles - 1)]}

\* the sequences of n profiles in ascending order, none below lo: one for
\* every multiset of n profiles
RECURSIVE Ascending(_, _)
Ascending(n, lo) ==
    IF n = 0
    THEN {<<>>}
    ELSE UNION {{<<k>> \o s : s \in Ascending(n - 1, k)} :
                    k \in lo..(NumProfiles - 1)}

\* the users of the tables passed to calculate_all_scores directly: every
\* sequence of fewer than MaxUsers profiles, and for MaxUsers users every
\* multiset of profiles
BatchProfiles(n) == IF n < MaxUsers THEN AllProfiles(n) ELSE Ascending(n, 0)

\* the tables a fresh DataProcessor yields: without enrich_with_metadata the
\* subject columns are filled with 0 (lines 286-288, fillna(0)); user i has
\* i sessions of i interactions
PipelineBatches ==
    {Tuple([i \in 1..n |-> FeatureRow(i, i - 1, i - 1, 0)]) :
        n \in {MaxPipelineUsers - 1, MaxPipelineUsers}}

\* no DataProcessor method is followed on its own
NoData == <<>>

\* np.log of a positive integer, in thousandths
Ln(k) == Log1pMilli[k]

LabelPool == <<"a", "b", "c">>

CountOf(items, label) == Cardinality({i \in 1..Len(items) : items[i] = label})

\* _calculate_diversity_index with np.log(count) in place of np.log(p)
_calculate_diversity_index_counts(items) ==
    IF items = <<>>
    THEN 0
    ELSE LET total == Len(items)
             term(label) ==
                IF CountOf(items, label) = 0 THEN 0
                ELSE CountOf(items, label) * Ln(CountOf(items, label))
         IN  (0 - SumSeq(Tuple([k \in 1..Len(LabelPool) |-> term(LabelPool[k])])))
                \div total

\* _calculate_diversity_index, lines 290-307: the Shannon index in
\* thousandths; p * log(p) with p = count / total is
\* count * (log(count) - log(total)) / total
_calculate_diversity_index(items) ==
    IF items = <<>>
    THEN 0
    ELSE LET total == Len(items)
             term(label) ==
                IF CountOf(items, label) = 0 THEN 0
                ELSE CountOf(items, label) * (Ln(CountOf(items, label)) - Ln(total))
         IN  (0 - SumSeq(Tuple([k \in 1..Len(LabelPool) |-> term(LabelPool[k])])))
                \div total

\* A record of the search log: its timestamp is a number of hours, None
\* (nan in the frame) or a string that is no date
Malformed == -3000000
NaT == NaN
Timestamps == {NaN, Malformed, 0, 30}

LogRecord(i, session_no, timestamp) ==
    [session_no |-> session_no, timestamp |-> timestamp, record_id |-> i,
     event |-> "view", http_referer |-> "direct"]

\* pd.to_datetime(column), line 61: raises on a string it cannot parse
\* (errors='raise'); a missing value becomes NaT
to_datetime_raises(logs) == \E i \in 1..Len(logs) : logs[i].timestamp = Malformed

\* the rows of the frame with session number s
SessionRows(df, s) == {i \in 1..Len(df) : df[i].session_no = s}

\* lines 122-126: the fingerprint of a session is taken from its first row:
\* referrer, date and 4-hour block; the date and hour of NaT are NaT and nan
Fingerprint(df, s) ==
    LET first == df[MinOf(SessionRows(df, s))]
    IN  IF first.timestamp = NaT
        THEN <<first.http_referer, NaT, NaN>>
        ELSE <<first.http_referer, first.timestamp \div 24,
               (first.timestamp % 24) \div 4>>

\* _create_user_ids, lines 106-135: every row of a session gets the user of
\* the session's fingerprint; a user is named by the fingerprint (the code
\* numbers the fingerprints in order of appearance)
_create_user_ids(df) ==
    Tuple([i \in 1..Len(df) |->
        [session_no |-> df[i].session_no, timestamp |-> df[i].timestamp,
         record_id |-> df[i].record_id, event |-> df[i].event,
         http_referer |-> df[i].http_referer,
         user_id |-> Fingerprint(df, df[i].session_no)]])

\* load_search_logs, lines 57-68, on the parsed records of the file
load_search_logs(logs) == _create_user_ids(logs)

\* process_interactions, lines 162-182: one summary per (user_id,
\* session_no); min, max and count skip NaT, nunique counts every row
SessionSummary(df, s) ==
    LET rows == SessionRows(df, s)
        stamps == {df[i].timestamp : i \in rows} \ {NaT}
    IN  [user_id |-> df[MinOf(rows)].user_id,
         session_no |-> s,
         session_start |-> IF stamps = {} THEN NaT ELSE MinOf(stamps),
         session_end |-> IF stamps = {} THEN NaT ELSE MaxOf(stamps),
         interaction_count |-> Cardinality({i \in rows : df[i].timestamp # NaT}),
         unique_records |-> Cardinality({df[i].record_id : i \in rows}),
         session_duration |->
            IF stamps = {} THEN NaN ELSE (MaxOf(stamps) - MinOf(stamps)) * 60,
         event_diversity |-> Cardinality({df[i].event : i \in rows})]

process_interactions(df) ==
    {SessionSummary(df, df[i].session_no) : i \in 1..Len(df)}

\* calculate_user_metrics, lines 230-253, for one user: the columns counted
\* and summed over the user's sessions, the activity period and the two
\* columns derived from it; sessions_per_day is kept in hundredths
UserMetricsRow(sessions, user_id) ==
    LET mine == {x \in sessions : x.user_id = user_id}
        starts == {x.session_start : x \in mine} \ {NaT}
        total(col) ==
            SumSeq(Tuple([s \in 1..MaxSessions |->
                IF \E x \in mine : x.session_no = s
                THEN (CHOOSE x \in mine : x.session_no = s)[col]
                ELSE 0]))
        first_activity == IF starts = {} THEN NaT ELSE MinOf(starts)
        last_activity == IF starts = {} THEN NaT ELSE MaxOf(starts)
        activity_span_days ==
            IF starts = {} THEN NaN ELSE ((last_activity - first_activity) \div 24) + 1
    IN  [user_id |-> user_id,
         total_sessions |-> Cardinality(mine),
         total_interactions |-> total("interaction_count"),
         total_unique_records |-> total("unique_records"),
         first_activity |-> first_activity,
         last_activity |-> last_activity,
         activity_span_days |-> activity_span_days,
         sessions_per_day |->
            IF activity_span_days = NaN THEN NaN
            ELSE (Cardinality(mine) * 100) \div activity_span_days]

calculate_user_metrics(sessions) ==
    {UserMetricsRow(sessions, x.user_id) : x \in sessions}

(***************************************************************************)
(* main.py                                                                 *)
(***************************************************************************)
NoScores == [present |-> FALSE, rows |-> <<>>]
Published(rows) == [present |-> TRUE, rows |-> rows]

\* datetime.now() as read by step `step` of background task i (task 0 is
\* the module body); a handler reads it for the task it schedules
Now(i, step) == <<i, step>>

\* A background task: the coroutine (kind), where it stands (pc), and its
\* record: what the handler saw when it added the task, what the tables
\* were when the run started, what the run logged and how it ended
NewTask(kind) ==
    [kind |-> kind, pc |-> "pending", outcome |-> "none", logged |-> {},
     status_seen |-> processing_status.last_updated,
     scores_before |-> NoScores, cache_before |-> <<>>]

\* lines 79-85
InitStatus ==
    [status |-> "idle", progress |-> 0,
     message |-> "Ready to process data", last_updated |-> Now(0, "init")]

PipelineInit ==
    /\ processing_status = InitStatus
    /\ tasks = <<>>
    /\ user_scores = NoScores
    /\ insights_cache = <<>>
    /\ data_processor = [search_logs |-> FALSE, interactions |-> FALSE,
                         metadata |-> FALSE, user_metrics |-> FALSE]
    /\ response = 0
    /\ data = NoData
    /\ kmeans = {}
    /\ team_calls = <<>>
    /\ advanced_insights_engine = AdvancedInsightsEngine
    /\ returned = <<>>
    /\ scaler = Unfitted
    /\ scorers = NoScorers
    /\ user_metrics \in PipelineBatches

\* process_data with add_task before the status check
process_data_adds_first ==
    /\ Len(tasks) < MaxTasks
    /\ tasks' = Append(tasks, NewTask("data"))
    /\ IF processing_status.status = "processing"
       THEN /\ response' = 409
            /\ UNCHANGED processing_status
       ELSE /\ processing_status' =
                  [status |-> "processing", progress |-> 0,
                   message |-> "Starting data processing pipeline",
                   last_updated |-> Now(Len(tasks) + 1, "accepted")]
            /\ response' = 200
    /\ UNCHANGED <<user_scores, insights_cache, data_processor, user_metrics, scaler, scorers, data, kmeans, team_calls, advanced_insights_engine, returned>>

\* POST /process-data, lines 110-129
process_data ==
    IF processing_status.status = "processing"
    THEN /\ response' = 409
         /\ UNCHANGED <<processing_status, tasks, user_scores, insights_cache,
                        data_processor, user_metrics, scaler, scorers, data, kmeans, team_calls, advanced_insights_engine, returned>>
    ELSE /\ Len(tasks) < MaxTasks
         /\ tasks' = Append(tasks, NewTask("data"))
         /\ processing_status' =
                [status |-> "processing", progress |-> 0,
                 message |-> "Starting data processing pipeline",
                 last_updated |-> Now(Len(tasks) + 1, "accepted")]
         /\ response' = 200
         /\ UNCHANGED <<user_scores, insights_cache, data_processor, user_metrics, scaler, scorers, data, kmeans, team_calls, advanced_insights_engine, returned>>

\* POST /calculate-scores, lines 136-147
calculate_scores ==
    IF processing_status.status = "processing"
    THEN /\ response' = 409
         /\ UNCHANGED <<processing_status, tasks, user_scores, insights_cache,
                        data_processor, user_metrics, scaler, scorers, data, kmeans, team_calls, advanced_insights_engine, returned>>
    ELSE /\ Len(tasks) < MaxTasks
         /\ tasks' = Append(tasks, NewTask("score"))
         /\ response' = 200
         /\ UNCHANGED <<processing_status, user_scores, insights_cache,
                        data_processor, user_metrics, scaler, scorers, data, kmeans, team_calls, advanced_insights_engine, returned>>

\* StatusError with a status outside the documented four
StatusError_failed(cause, t) ==
    [processing_status EXCEPT !.status = "failed",
                              !.message = cause,
                              !.last_updated = t]

\* the except branches, lines 238-241 and 268-271
StatusError(cause, t) ==
    [processing_status EXCEPT !.status = "error",
                              !.message = cause,
                              !.last_updated = t]

\* lines 205-207, 212-214, 219-221, 226-228, 256-258
StatusProgress(message, progress, t) ==
    [processing_status EXCEPT !.message = message,
                              !.progress = progress,
                              !.last_updated = t]

\* lines 233-236 and 263-266
StatusCompleted(message, t) ==
    [processing_status EXCEPT !.status = "completed",
                              !.message = message,
                              !.progress = 100,
                              !.last_updated = t]

\* lines 248-251
StatusScoring(t) ==
    [status |-> "processing", progress |-> 0,
     message |-> "Calculating NeuraScores", last_updated |-> t]

\* TaskFails for a task that starts over at the failed step
TaskFails_retry(i, cause) ==
    /\ processing_status' = StatusError(cause, Now(i, tasks[i].pc))
    /\ tasks' = [tasks EXCEPT ![i].pc = "pending", ![i].outcome = "error"]

\* a failing step of task i: the except branch ends the task
TaskFails(i, cause) ==
    /\ processing_status' = StatusError(cause, Now(i, tasks[i].pc))
    /\ tasks' = [tasks EXCEPT ![i].pc = "done", ![i].outcome = "error"]

\* run_data_processing starts: lines 204-207
DataStart(i) ==
    /\ tasks[i].kind = "data" /\ tasks[i].pc = "pending"
    /\ processing_status' =
          StatusProgress("Loading raw data files", 10, Now(i, "pending"))
    /\ tasks' = [tasks EXCEPT ![i].pc = "load"]
    /\ UNCHANGED <<user_scores, insights_cache, data_processor, response, user_metrics, scaler, scorers, data, kmeans, team_calls, advanced_insights_engine, returned>>

\* await data_processor.load_search_logs(), then lines 212-214
DataLoad(i) ==
    /\ tasks[i].kind = "data" /\ tasks[i].pc = "load"
    /\ \E ok \in BOOLEAN :
         IF ok
         THEN /\ data_processor' = [data_processor EXCEPT !.search_logs = TRUE]
              /\ processing_status' =
                    StatusProgress("Processing user interactions", 30, Now(i, "load"))
              /\ tasks' = [tasks EXCEPT ![i].pc = "interactions"]
         ELSE /\ TaskFails(i, "Error: load_search_logs")
              /\ UNCHANGED data_processor
    /\ UNCHANGED <<user_scores, insights_cache, response, user_metrics, scaler, scorers, data, kmeans, team_calls, advanced_insights_engine, returned>>

\* await data_processor.process_interactions(), then lines 219-221
DataInteractions(i) ==
    /\ tasks[i].kind = "data" /\ tasks[i].pc = "interactions"
    /\ \E ok \in BOOLEAN :
         IF ok
         THEN /\ data_processor' = [data_processor EXCEPT !.search_logs = TRUE,
                                                          !.interactions = TRUE]
              /\ processing_status' =
                    StatusProgress("Enriching with metadata", 50, Now(i, "interactions"))
              /\ tasks' = [tasks EXCEPT ![i].pc = "enrich"]
         ELSE /\ TaskFails(i, "Error: process_interactions")
              /\ UNCHANGED data_processor
    /\ UNCHANGED <<user_scores, insights_cache, response, user_metrics, scaler, scorers, data, kmeans, team_calls, advanced_insights_engine, returned>>

\* await data_processor.enrich_with_metadata(), then lines 226-228
DataEnrich(i) ==
    /\ tasks[i].kind = "data" /\ tasks[i].pc = "enrich"
    /\ \E ok \in BOOLEAN :
         IF ok
         THEN /\ data_processor' = [data_processor EXCEPT !.metadata = TRUE]
              /\ processing_status' =
                    StatusProgress("Calculating user metrics", 70, Now(i, "enrich"))
              /\ tasks' = [tasks EXCEPT ![i].pc = "metrics"]
         ELSE /\ TaskFails(i, "Error: enrich_with_metadata")
              /\ UNCHANGED data_processor
    /\ UNCHANGED <<user_scores, insights_cache, response, user_metrics, scaler, scorers, data, kmeans, team_calls, advanced_insights_engine, returned>>

\* await data_processor.calculate_user_metrics(), then lines 233-236
DataMetrics(i) ==
    /\ tasks[i].kind = "data" /\ tasks[i].pc = "metrics"
    /\ \E ok \in BOOLEAN :
         IF ok
         THEN /\ data_processor' = [data_processor EXCEPT !.interactions = TRUE,
                                                          !.user_metrics = TRUE]
              /\ processing_status' =
                    StatusCompleted("Data processing completed", Now(i, "metrics"))
              /\ tasks' = [tasks EXCEPT ![i].pc = "done", ![i].outcome = "completed"]
         ELSE /\ TaskFails(i, "Error: calculate_user_metrics")
              /\ UNCHANGED data_processor
    /\ UNCHANGED <<user_scores, insights_cache, response, user_metrics, scaler, scorers, data, kmeans, team_calls, advanced_insights_engine, returned>>

\* run_score_calculation starts: lines 247-251
ScoreStart(i) ==
    /\ tasks[i].kind = "score" /\ tasks[i].pc = "pending"
    /\ processing_status' = StatusScoring(Now(i, "pending"))
    /\ tasks' = [tasks EXCEPT ![i].pc = "calc",
                              ![i].scores_before = user_scores,
                              ![i].cache_before = insights_cache]
    /\ UNCHANGED <<user_scores, insights_cache, data_processor, response, user_metrics, scaler, scorers, data, kmeans, team_calls, advanced_insights_engine, returned>>

\* await neurascore_engine.calculate_all_scores(), then lines 256-258.
\* The engine reads the features through a fresh DataProcessor, which can
\* raise; a pillar scorer that raises is logged and yields zeros.
ScoreCalc(i) ==
    /\ tasks[i].kind = "score" /\ tasks[i].pc = "calc"
    /\ \E ok \in BOOLEAN :
         IF ok
         THEN /\ user_scores' =
                    Published(calculate_all_scores(user_metrics, Now(i, "calc")))
              /\ scaler' = ScalerAfter(user_metrics)
              /\ processing_status' =
                    StatusProgress("Generating insights", 80, Now(i, "calc"))
              /\ tasks' = [tasks EXCEPT
                    ![i].pc = "insights",
                    ![i].logged = @ \cup (IF ScorerFailed(user_metrics)
                                          THEN {"pillar scorer"} ELSE {})]
         ELSE /\ TaskFails(i, "Error: calculate_all_scores")
              /\ UNCHANGED <<user_scores, scaler>>
    /\ UNCHANGED <<insights_cache, data_processor, response, user_metrics, scorers, data, kmeans, team_calls, advanced_insights_engine, returned>>

\* await insight_generator.generate_insights(), then lines 263-266.
\* Called without arguments it scores the features again on a fresh engine
\* and clusters them; every exception is caught inside (lines 128-130 and
\* neurascore_engine.py 272-274) and the run goes on to 'completed'.
ScoreInsights(i) ==
    /\ tasks[i].kind = "score" /\ tasks[i].pc = "insights"
    /\ \E ok \in BOOLEAN :
         IF ok
         THEN \E scores \in {calculate_all_scores(user_metrics, Now(i, "insights"))} :
                  \E labels \in fit_predict(Features(scores), NumTeams(Len(scores))) :
                    /\ insights_cache' =
                          generate_insights(scores,
                              TeamMetricsOf(scores, _simulate_team_assignments(scores, labels)),
                              Now(i, "insights"))
                    /\ kmeans' = KMeansAfter(Features(scores), NumTeams(Len(scores)), labels)
                    /\ tasks' = [tasks EXCEPT
                          ![i].pc = "done", ![i].outcome = "completed",
                          ![i].logged = @ \cup
                              (IF labels = <<>>
                               THEN {"team clustering"} ELSE {})]
         ELSE /\ UNCHANGED <<insights_cache, kmeans>>
              /\ tasks' = [tasks EXCEPT
                      ![i].pc = "done", ![i].outcome = "completed",
                      ![i].logged = @ \cup {"insight generation"}]
    /\ processing_status' =
          StatusCompleted("Score calculation completed", Now(i, "insights"))
    /\ UNCHANGED <<user_scores, data_processor, response, user_metrics, scaler, scorers, data, team_calls, advanced_insights_engine, returned>>

TaskStep(i) ==
    \/ DataStart(i)
    \/ DataLoad(i)
    \/ DataInteractions(i)
    \/ DataEnrich(i)
    \/ DataMetrics(i)
    \/ ScoreStart(i)
    \/ ScoreCalc(i)
    \/ ScoreInsights(i)

Next ==
    \/ process_data
    \/ calculate_scores
    \/ \E i \in 1..Len(tasks) : TaskStep(i)

Spec == PipelineInit /\ [][Next]_vars

\* The event loop keeps running the background tasks that are scheduled.
\* Which steps a run takes does not depend on the rows of the feature
\* table, so the runs are followed on the smaller data set.
FairInit == PipelineInit /\ Len(user_metrics) = MaxPipelineUsers - 1

FairSpec ==
    FairInit /\ [][Next]_vars /\ WF_vars(\E i \in 1..Len(tasks) : TaskStep(i))

(***************************************************************************)
(* The scoring engine on its own: calculate_all_scores(user_metrics) on   *)
(* the feature tables of BatchProfiles                                     *)
(***************************************************************************)
ScoreInit ==
    /\ processing_status = InitStatus
    /\ tasks = <<>>
    /\ user_scores = NoScores
    /\ insights_cache = <<>>
    /\ data_processor = [search_logs |-> FALSE, interactions |-> FALSE,
                         metadata |-> FALSE, user_metrics |-> FALSE]
    /\ response = 0
    /\ data = NoData
    /\ kmeans = {}
    /\ team_calls = <<>>
    /\ advanced_insights_engine = AdvancedInsightsEngine
    /\ returned = <<>>
    /\ scaler = Unfitted
    /\ scorers = NoScorers
    /\ \E n \in 1..MaxUsers : \E p \in BatchProfiles(n) :
          user_metrics = FeatureTable(p)

\* calculate_all_scores(user_metrics), line 72: the engine publishes the table
ScoreBatch ==
    /\ ~user_scores.present
    /\ user_scores' = Published(calculate_all_scores(user_metrics, Now(0, "direct")))
    /\ scaler' = ScalerAfter(user_metrics)
    /\ UNCHANGED <<processing_status, tasks, insights_cache, data_processor,
                   response, user_metrics, scorers, data, kmeans, team_calls, advanced_insights_engine, returned>>

ScoreNext == ScoreBatch

ScoreSpec == ScoreInit /\ [][ScoreNext]_vars

(***************************************************************************)
(* The pillar scorers on tables of arbitrary feature values: missing       *)
(* (nan), negative, zero and huge                                          *)
(***************************************************************************)
Huge == 40
RawValues == {NaN, -2, -1, 0, 1, Huge}

\* a row whose session count is v and whose sessions per day and session
\* duration are w
RawRow(id, v, w) ==
    [FeatureRow(id, 1, 1, 1) EXCEPT !.total_sessions = v,
                                    !.sessions_per_day = w,
                                    !.avg_session_duration = w]

RawTable(f) == Tuple([i \in 1..Len(f) |-> RawRow(i, f[i][1], f[i][2])])

\* lines 44-47 and 50-56: the four pillar columns of the score table
PillarScores(table) ==
    LET d == _calculate_discovery_scores(table)
        c == _calculate_collaboration_scores(table)
        doc == _calculate_documentation_scores(table)
        r == _calculate_reuse_scores(table)
    IN  [user_id |-> Column(table, "user_id"),
         discovery_score |-> d,
         collaboration_score |-> c,
         documentation_score |-> doc,
         reuse_score |-> r]

RawInit ==
    /\ processing_status = InitStatus
    /\ tasks = <<>>
    /\ user_scores = NoScores
    /\ insights_cache = <<>>
    /\ data_processor = [search_logs |-> FALSE, interactions |-> FALSE,
                         metadata |-> FALSE, user_metrics |-> FALSE]
    /\ response = 0
    /\ data = NoData
    /\ kmeans = {}
    /\ team_calls = <<>>
    /\ advanced_insights_engine = AdvancedInsightsEngine
    /\ returned = <<>>
    /\ scaler = Unfitted
    /\ scorers = NoScorers
    /\ \E n \in 1..MaxRawUsers : \E f \in [1..n -> RawValues \X RawValues] :
          user_metrics = RawTable(Tuple(f))

\* the four scorer calls of calculate_all_scores, lines 44-47
RawScore ==
    /\ ~user_scores.present
    /\ user_scores' = Published(PillarScores(user_metrics))
    /\ scaler' = ScalerAfter(user_metrics)
    /\ UNCHANGED <<processing_status, tasks, insights_cache, data_processor,
                   response, user_metrics, scorers, data, kmeans, team_calls, advanced_insights_engine, returned>>

RawNext == RawScore

RawSpec == RawInit /\ [][RawNext]_vars

(***************************************************************************)
(* calculate_all_scores(user_metrics) on feature tables that lack a        *)
(* column a scorer selects, or hold a value a scorer cannot transform      *)
(***************************************************************************)
\* the profiles of the users of these tables
DropProfiles == {0, 7, 10, 17}

\* the feature columns one of which a table lacks
DroppedColumns ==
    {"total_sessions", "total_interactions", "sessions_per_day",
     "avg_event_diversity", "avg_session_duration", "activity_span_days",
     "subject_diversity_score"}

\* a DataFrame without the column col
Drop(table, col) ==
    Tuple([i \in 1..Len(table) |->
        [c \in (DOMAIN table[i]) \ {col} |-> table[i][c]]])

\* the tables: complete, lacking one column, or with total_sessions -1 in
\* the first row (log1p gives -inf, which the scaler rejects)
DropTables ==
    UNION {{FeatureTable(Tuple(p)),
            [FeatureTable(Tuple(p)) EXCEPT ![1].total_sessions = -1]}
           \cup {Drop(FeatureTable(Tuple(p)), col) : col \in DroppedColumns} :
                p \in UNION {[1..n -> DropProfiles] : n \in 1..MaxRawUsers}}

DropInit ==
    /\ processing_status = InitStatus
    /\ tasks = <<>>
    /\ user_scores = NoScores
    /\ insights_cache = <<>>
    /\ data_processor = [search_logs |-> FALSE, interactions |-> FALSE,
                         metadata |-> FALSE, user_metrics |-> FALSE]
    /\ response = 0
    /\ data = NoData
    /\ kmeans = {}
    /\ team_calls = <<>>
    /\ advanced_insights_engine = AdvancedInsightsEngine
    /\ returned = <<>>
    /\ scaler = Unfitted
    /\ scorers = NoScorers
    /\ user_metrics \in DropTables

DropSpec == DropInit /\ [][ScoreNext]_vars

(***************************************************************************)
(* The four scorer calls of one engine run step by step: column selection, *)
(* fit of self.scaler, transform, weighted sum.  calculate_all_scores      *)
(* runs the calls one after another; here the steps of different calls may *)
(* take turns in any order.                                                *)
(***************************************************************************)
PillarNames == {"discovery", "collaboration", "documentation", "reuse"}

ScorerWeights(pillar) ==
    CASE pillar = "discovery" -> discovery_weights
      [] pillar = "collaboration" -> collaboration_weights
      [] pillar = "documentation" -> documentation_weights
      [] pillar = "reuse" -> reuse_weights

\* the feature tables of user 1 with the lowest profile and user 2 with any
StepInit ==
    /\ processing_status = InitStatus
    /\ tasks = <<>>
    /\ user_scores = NoScores
    /\ insights_cache = <<>>
    /\ data_processor = [search_logs |-> FALSE, interactions |-> FALSE,
                         metadata |-> FALSE, user_metrics |-> FALSE]
    /\ response = 0
    /\ data = NoData
    /\ kmeans = {}
    /\ team_calls = <<>>
    /\ advanced_insights_engine = AdvancedInsightsEngine
    /\ returned = <<>>
    /\ scaler = Unfitted
    /\ scorers = [p \in PillarNames |->
                    [pc |-> "called", normalized |-> <<>>, result |-> <<>>]]
    /\ \E k \in 0..(NumProfiles - 1) : user_metrics = FeatureTable(<<0, k>>)

\* the except branch of a scorer: np.zeros(len(user_metrics))
ScorerRaises(p) ==
    scorers' = [scorers EXCEPT ![p].pc = "done", ![p].result = Zeros(user_metrics)]

\* user_metrics[[...]].fillna(0), and for the reuse scorer line 169, whose
\* KeyError ends the call
ScorerSelect(p) ==
    /\ scorers[p].pc = "called"
    /\ IF p = "reuse" \/ Len(user_metrics) = 0
       THEN ScorerRaises(p)
       ELSE scorers' = [scorers EXCEPT ![p].pc = "fit"]
    /\ UNCHANGED <<processing_status, tasks, user_scores, insights_cache,
                   data_processor, response, user_metrics, scaler, data,
                   kmeans, team_calls, advanced_insights_engine, returned>>

\* self.scaler.fit_transform, first half: fit
ScorerFit(p) ==
    /\ scorers[p].pc = "fit"
    /\ scaler' = Fit(p, ScalerInput(p, user_metrics))
    /\ scorers' = [scorers EXCEPT ![p].pc = "transform"]
    /\ UNCHANGED <<processing_status, tasks, user_scores, insights_cache,
                   data_processor, response, user_metrics, data,
                   kmeans, team_calls, advanced_insights_engine, returned>>

\* self.scaler.fit_transform, second half: transform.  When another call
\* has fitted the scaler in between, transform checks the input against
\* the fitted feature names and count: it raises ValueError, or (releases
\* that only warn about the names) transforms with the other parameters
\* when the number of columns agrees.
ScorerTransform(p) ==
    /\ scorers[p].pc = "transform"
    /\ IF scaler.fitted_by = p
       THEN scorers' = [scorers EXCEPT
                ![p].pc = "dot",
                ![p].normalized = Transform(scaler, ScalerInput(p, user_metrics))]
       ELSE \/ scorers' = [scorers EXCEPT
                    ![p].pc = "done", ![p].result = Zeros(user_metrics)]
            \/ /\ Len(scaler.data_min) = Len(ScalerInput(p, user_metrics))
               /\ scorers' = [scorers EXCEPT
                    ![p].pc = "dot",
                    ![p].normalized = Transform(scaler, ScalerInput(p, user_metrics))]
    /\ UNCHANGED <<processing_status, tasks, user_scores, insights_cache,
                   data_processor, response, user_metrics, scaler, data,
                   kmeans, team_calls, advanced_insights_engine, returned>>

\* np.clip(np.dot(normalized, weights) * 100, 0, 100)
ScorerDot(p) ==
    /\ scorers[p].pc = "dot"
    /\ scorers' = [scorers EXCEPT
            ![p].pc = "done",
            ![p].result = WeightedScores(scorers[p].normalized, ScorerWeights(p))]
    /\ UNCHANGED <<processing_status, tasks, user_scores, insights_cache,
                   data_processor, response, user_metrics, scaler, data,
                   kmeans, team_calls, advanced_insights_engine, returned>>

\* lines 50-56: the combiner reads the four results
Combine ==
    /\ ~user_scores.present
    /\ \A p \in PillarNames : scorers[p].pc = "done"
    /\ user_scores' = Published(
            [user_id |-> Column(user_metrics, "user_id"),
             discovery_score |-> scorers["discovery"].result,
             collaboration_score |-> scorers["collaboration"].result,
             documentation_score |-> scorers["documentation"].result,
             reuse_score |-> scorers["reuse"].result])
    /\ UNCHANGED <<processing_status, tasks, insights_cache, data_processor,
                   response, user_metrics, scaler, scorers, data, kmeans, team_calls, advanced_insights_engine, returned>>

StepNext ==
    \/ \E p \in PillarNames :
          ScorerSelect(p) \/ ScorerFit(p) \/ ScorerTransform(p) \/ ScorerDot(p)
    \/ Combine

StepSpec == StepInit /\ [][StepNext]_vars

(***************************************************************************)
(* _calculate_diversity_index on every list of at most MaxLabels labels   *)
(***************************************************************************)
DiversityInit ==
    /\ processing_status = InitStatus
    /\ tasks = <<>>
    /\ user_scores = NoScores
    /\ insights_cache = <<>>
    /\ data_processor = [search_logs |-> FALSE, interactions |-> FALSE,
                         metadata |-> FALSE, user_metrics |-> FALSE]
    /\ response = 0
    /\ scaler = Unfitted
    /\ scorers = NoScorers
    /\ user_metrics = <<>>
    /\ kmeans = {}
    /\ team_calls = <<>>
    /\ advanced_insights_engine = AdvancedInsightsEngine
    /\ returned = <<>>
    /\ \E n \in 0..MaxLabels : \E f \in [1..n -> 1..Len(LabelPool)] :
          data = [items |-> Tuple([i \in 1..n |-> LabelPool[f[i]]]),
                  returned |-> FALSE, shannon_index |-> 0]

\* the call _calculate_diversity_index(items), line 281
DiversityCall ==
    /\ ~data.returned
    /\ data' = [data EXCEPT !.returned = TRUE,
                            !.shannon_index = _calculate_diversity_index(data.items)]
    /\ UNCHANGED <<processing_status, tasks, user_scores, insights_cache,
                   data_processor, response, user_metrics, scaler, scorers,
                   kmeans, team_calls, advanced_insights_engine, returned>>

DiversityNext == DiversityCall

DiversitySpec == DiversityInit /\ [][DiversityNext]_vars

(***************************************************************************)
(* A DataProcessor on a search log file: load_search_logs, then           *)
(* process_interactions, then calculate_user_metrics                      *)
(***************************************************************************)
LogInit ==
    /\ processing_status = InitStatus
    /\ tasks = <<>>
    /\ user_scores = NoScores
    /\ insights_cache = <<>>
    /\ data_processor = [search_logs |-> FALSE, interactions |-> FALSE,
                         metadata |-> FALSE, user_metrics |-> FALSE]
    /\ response = 0
    /\ scaler = Unfitted
    /\ scorers = NoScorers
    /\ user_metrics = <<>>
    /\ kmeans = {}
    /\ team_calls = <<>>
    /\ advanced_insights_engine = AdvancedInsightsEngine
    /\ returned = <<>>
    /\ \E n \in 1..MaxRecords : \E f \in [1..n -> (1..MaxSessions) \X Timestamps] :
          data = [log_file |-> Tuple([i \in 1..n |-> LogRecord(i, f[i][1], f[i][2])]),
                  pc |-> "created",
                  search_logs_df |-> <<>>,
                  processed_interactions |-> {},
                  user_metrics |-> {}]

\* await load_search_logs(): an exception is logged and raised again
LogLoad ==
    /\ data.pc = "created"
    /\ IF to_datetime_raises(data.log_file)
       THEN data' = [data EXCEPT !.pc = "raised"]
       ELSE data' = [data EXCEPT !.pc = "loaded",
                                 !.search_logs_df = load_search_logs(data.log_file)]
    /\ UNCHANGED <<processing_status, tasks, user_scores, insights_cache,
                   data_processor, response, user_metrics, scaler, scorers,
                   kmeans, team_calls, advanced_insights_engine, returned>>

\* await process_interactions()
LogProcess ==
    /\ data.pc = "loaded"
    /\ data' = [data EXCEPT
            !.pc = "processed",
            !.processed_interactions = process_interactions(data.search_logs_df)]
    /\ UNCHANGED <<processing_status, tasks, user_scores, insights_cache,
                   data_processor, response, user_metrics, scaler, scorers,
                   kmeans, team_calls, advanced_insights_engine, returned>>

\* await calculate_user_metrics()
LogMetrics ==
    /\ data.pc = "processed"
    /\ data' = [data EXCEPT
            !.pc = "metrics",
            !.user_metrics = calculate_user_metrics(data.processed_interactions)]
    /\ UNCHANGED <<processing_status, tasks, user_scores, insights_cache,
                   data_processor, response, user_metrics, scaler, scorers,
                   kmeans, team_calls, advanced_insights_engine, returned>>

LogNext == LogLoad \/ LogProcess \/ LogMetrics

LogSpec == LogInit /\ [][LogNext]_vars

(***************************************************************************)
(* get_team_metrics called repeatedly on an engine that holds a score      *)
(* table                                                                   *)
(***************************************************************************)
\* the ascending sequences of n session levels, none below lo
RECURSIVE SessionLevels(_, _)
SessionLevels(n, lo) ==
    IF n = 0
    THEN {<<>>}
    ELSE UNION {{<<a>> \o s : s \in SessionLevels(n - 1, a)} : a \in lo..MaxFeature}

\* the feature tables of up to MaxTeamUsers users who differ in their number
\* of sessions only, several or all of them alike
TeamTables ==
    {FeatureTable(Tuple([i \in 1..Len(s) |-> s[i] * 2 * (MaxFeature + 1)])) :
        s \in UNION {SessionLevels(n, 0) : n \in 1..MaxTeamUsers}}

\* feature tables of two users whose number of sessions is arbitrary
RawTeamTables ==
    {RawTable(Tuple(f)) : f \in [1..2 -> {<<-2, 1>>, <<0, 0>>, <<1, 1>>}]}

TeamInit ==
    /\ processing_status = InitStatus
    /\ tasks = <<>>
    /\ insights_cache = <<>>
    /\ data_processor = [search_logs |-> FALSE, interactions |-> FALSE,
                         metadata |-> FALSE, user_metrics |-> FALSE]
    /\ response = 0
    /\ scorers = NoScorers
    /\ data = NoData
    /\ kmeans = {}
    /\ team_calls = <<>>
    /\ advanced_insights_engine = AdvancedInsightsEngine
    /\ returned = <<>>
    /\ \E table \in TeamTables \cup RawTeamTables :
          /\ user_metrics = table
          /\ user_scores = Published(calculate_all_scores(table, Now(0, "direct")))
          /\ scaler = ScalerAfter(table)

\* get_team_metrics, lines 203-237, with _simulate_team_assignments inlined
\* at line 210; user_scores is set, so lines 206-207 do nothing
GetTeamMetrics ==
    /\ Len(team_calls) < MaxTeamCalls
    /\ user_scores.present
    /\ \E labels \in fit_predict(Features(user_scores.rows),
                                  NumTeams(Len(user_scores.rows))) :
          LET teams == _simulate_team_assignments(user_scores.rows, labels)
          IN  /\ team_calls' = Append(team_calls,
                    [n_teams |-> NumTeams(Len(user_scores.rows)),
                     teams |-> teams,
                     team_metrics |-> TeamMetricsOf(user_scores.rows, teams)])
              /\ kmeans' = KMeansAfter(Features(user_scores.rows),
                                       NumTeams(Len(user_scores.rows)), labels)
    /\ UNCHANGED <<processing_status, tasks, user_scores, insights_cache,
                   data_processor, response, user_metrics, scaler, scorers, data,
                   advanced_insights_engine, returned>>

TeamNext == GetTeamMetrics

TeamSpec == TeamInit /\ [][TeamNext]_vars

(***************************************************************************)
(* The methods of the AdvancedInsightsEngine called on a frame of users    *)
(***************************************************************************)
\* a user of one of `levels` kinds; the overall score is the weighted sum of
\* sample_data_generator.py, lines 46-51, or missing
AdvancedRow(i, levels, missing) ==
    LET level == i % levels
        discovery == 35 + 20 * level
        collaboration == 40
        documentation == 45 + 10 * level
        reuse == 30 + 5 * level
    IN  [user_id |-> i,
         discovery_score |-> discovery,
         collaboration_score |-> collaboration,
         documentation_score |-> documentation,
         reuse_score |-> reuse,
         overall_score |->
            IF missing THEN NaN
            ELSE (30 * discovery + 25 * collaboration
                    + 25 * documentation + 20 * reuse) \div 100,
         activity_count |-> 5 + i,
         created_at |-> i]

\* the frames: n users of `levels` kinds, the first m of them without an
\* overall score
AdvancedFrames ==
    {Tuple([i \in 1..n |-> AdvancedRow(i, levels, i <= m)]) :
        n \in 0..MaxAdvancedUsers, levels \in 1..MaxScoreLevels, m \in 0..1}

AdvancedInit ==
    /\ processing_status = InitStatus
    /\ tasks = <<>>
    /\ user_scores = NoScores
    /\ insights_cache = <<>>
    /\ data_processor = [search_logs |-> FALSE, interactions |-> FALSE,
                         metadata |-> FALSE, user_metrics |-> FALSE]
    /\ response = 0
    /\ scaler = Unfitted
    /\ scorers = NoScorers
    /\ user_metrics = <<>>
    /\ data = NoData
    /\ kmeans = {}
    /\ team_calls = <<>>
    /\ returned = <<>>
    /\ \E user_data \in AdvancedFrames :
          advanced_insights_engine =
              [AdvancedInsightsEngine EXCEPT !.user_data = user_data]

\* analyze_user_patterns(user_data), lines 29-72
AnalyzeUserPatterns ==
    LET user_data == advanced_insights_engine.user_data
    IN  /\ advanced_insights_engine.patterns = <<>>
        /\ IF Len(user_data) < 5
           THEN /\ advanced_insights_engine' = [advanced_insights_engine EXCEPT
                        !.patterns = <<analyze_user_patterns(user_data, <<>>)>>]
                /\ UNCHANGED kmeans
           ELSE \E labels \in fit_predict(X_scaled(user_data),
                                          PatternClusters(Len(user_data))) :
                  /\ advanced_insights_engine' = [advanced_insights_engine EXCEPT
                        !.scaler_fitted = TRUE,
                        !.patterns = <<analyze_user_patterns(user_data, labels)>>]
                  /\ kmeans' = KMeansAfter(X_scaled(user_data),
                                           PatternClusters(Len(user_data)), labels)
        /\ UNCHANGED <<processing_status, tasks, user_scores, insights_cache,
                       data_processor, response, user_metrics, scaler, scorers,
                       data, team_calls, returned>>

\* predict_performance_trends(user_data), lines 74-128: line 91 replaces the
\* model before fit raises or returns
PredictPerformanceTrends ==
    LET user_data == advanced_insights_engine.user_data
    IN  /\ advanced_insights_engine.trends = <<>>
        /\ \E future_scores \in FutureScores(user_data) :
              advanced_insights_engine' = [advanced_insights_engine EXCEPT
                  !.performance_model = @ \/ Len(user_data) >= 10,
                  !.trends = <<predict_performance_trends(user_data, future_scores)>>]
        /\ UNCHANGED <<processing_status, tasks, user_scores, insights_cache,
                       data_processor, response, user_metrics, scaler, scorers,
                       data, kmeans, team_calls, returned>>

AdvancedNext == AnalyzeUserPatterns \/ PredictPerformanceTrends

AdvancedSpec == AdvancedInit /\ [][AdvancedNext]_vars

(***************************************************************************)
(* generate_insights and get_insights called on a snapshot of scores and   *)
(* team metrics                                                            *)
(***************************************************************************)
\* a pillar score and an overall score given in tenths of a point
Tenths(x) == (x * ScoreUnit) \div 10
OverallTenths(x) == (x * OverallUnit) \div 10

\* the users a score table can hold: pillar scores at and next to the
\* thresholds of the rules (discovery, collaboration, documentation, reuse);
\* the overall score is the weighted sum of calculate_all_scores
InsightUserKinds ==
    <<<<100, 100, 499, 449>>,
      <<400, 800, 500, 450>>,
      <<900, 499, 500, 451>>,
      <<800, 800, 800, 800>>,
      <<799, 800, 800, 800>>,
      <<399, 1000, 1000, 100>>>>

ScoreRow(id, kind) ==
    [user_id |-> id,
     discovery_score |-> Tenths(kind[1]),
     collaboration_score |-> Tenths(kind[2]),
     documentation_score |-> Tenths(kind[3]),
     reuse_score |-> Tenths(kind[4]),
     overall_score |-> OverallScore(Tenths(kind[1]), Tenths(kind[2]),
                                    Tenths(kind[3]), Tenths(kind[4])),
     percentile_rank |-> 0,
     computed_at |-> Now(0, "direct")]

\* the ascending sequences of n indexes in lo..hi
RECURSIVE AscendingIn(_, _, _)
AscendingIn(n, lo, hi) ==
    IF n = 0
    THEN {<<>>}
    ELSE UNION {{<<k>> \o s : s \in AscendingIn(n - 1, k, hi)} : k \in lo..hi}

InsightTables ==
    {Tuple([i \in 1..Len(p) |-> ScoreRow(i, InsightUserKinds[p[i]])]) :
        p \in UNION {AscendingIn(n, 1, Len(InsightUserKinds)) : n \in 0..MaxInsightUsers}}

\* the teams a team list can hold (avg_neurascore, collaboration_index), in
\* the shape get_team_metrics returns, each with one member
InsightTeamKinds == <<<<499, 400>>, <<500, 399>>, <<750, 399>>, <<749, 400>>>>

TeamRow(k, kind) ==
    [team_id |-> team_id_of(k - 1),
     team_name |-> team_names[k],
     member_count |-> 1,
     members |-> {k},
     sum_neurascore |-> OverallTenths(kind[1]),
     sum_discovery |-> Tenths(kind[1]),
     sum_collaboration |-> Tenths(kind[2]),
     sum_documentation |-> Tenths(kind[1]),
     sum_reuse |-> Tenths(kind[1])]

InsightTeamLists ==
    {Tuple([k \in 1..n |-> TeamRow(k, InsightTeamKinds[f[k]])]) :
        n \in 0..MaxInsightTeams, f \in [1..MaxInsightTeams -> 1..Len(InsightTeamKinds)]}

InsightInit ==
    /\ processing_status = InitStatus
    /\ tasks = <<>>
    /\ user_scores = NoScores
    /\ insights_cache = <<>>
    /\ data_processor = [search_logs |-> FALSE, interactions |-> FALSE,
                         metadata |-> FALSE, user_metrics |-> FALSE]
    /\ response = 0
    /\ scaler = Unfitted
    /\ scorers = NoScorers
    /\ data = NoData
    /\ kmeans = {}
    /\ team_calls = <<>>
    /\ advanced_insights_engine = AdvancedInsightsEngine
    /\ returned = <<>>
    /\ user_metrics \in PipelineBatches

\* the call just made, kept with the first call
Returning(call) ==
    IF returned = <<>>
    THEN <<[call EXCEPT !.no = 1]>>
    ELSE <<returned[1], [call EXCEPT !.no = returned[Len(returned)].no + 1]>>

CallNo == IF returned = <<>> THEN 1 ELSE returned[Len(returned)].no + 1

\* generate_insights(user_scores, team_metrics), lines 93-130, with both
\* arguments given: lines 102-108 are skipped. The first call chooses the
\* snapshot, the later ones are made on the same snapshot
GenerateInsights ==
    /\ CallNo <= MaxInsightCalls
    /\ \E scores \in InsightTables, team_metrics \in InsightTeamLists :
          /\ returned # <<>> => /\ scores = returned[1].user_scores
                                /\ team_metrics = returned[1].team_metrics
          /\ insights_cache' = generate_insights(scores, team_metrics, CallNo)
          /\ returned' = Returning(
                [call |-> "generate_insights", no |-> 0,
                 user_scores |-> scores, team_metrics |-> team_metrics,
                 entity_type |-> "", entity_id |-> "",
                 result |-> generate_insights(scores, team_metrics, CallNo)])
    /\ UNCHANGED <<processing_status, tasks, user_scores, data_processor, response,
                   user_metrics, scaler, scorers, data, kmeans, team_calls,
                   advanced_insights_engine>>

\* get_insights(entity_type, entity_id), lines 313-336. With an empty cache
\* generate_insights() is called first (lines 317-318): a fresh engine scores
\* the features of the data files and clusters them. Without a filter the
\* list that is sorted in place at line 329 is the cache itself
GetInsights ==
    /\ CallNo <= MaxInsightCalls
    /\ returned # <<>>
    /\ \E entity \in {<<"", "">>, <<"user", "">>, <<"organization", "org_001">>} :
       \E labels \in IF insights_cache = <<>>
                     THEN LET scores == calculate_all_scores(user_metrics, Now(0, "direct"))
                          IN  fit_predict(Features(scores), NumTeams(Len(scores)))
                     ELSE {<<>>} :
          LET scores == calculate_all_scores(user_metrics, Now(0, "direct"))
              cache == IF insights_cache = <<>>
                       THEN generate_insights(scores,
                                TeamMetricsOf(scores,
                                    _simulate_team_assignments(scores, labels)),
                                CallNo)
                       ELSE insights_cache
              result == SortByPriority(FilterInsights(cache, entity[1], entity[2]))
          IN  /\ insights_cache' = IF entity = <<"", "">> THEN result ELSE cache
              /\ kmeans' = IF insights_cache = <<>>
                           THEN KMeansAfter(Features(scores), NumTeams(Len(scores)), labels)
                           ELSE kmeans
              /\ returned' = Returning(
                    [call |-> "get_insights", no |-> 0,
                     user_scores |-> returned[1].user_scores,
                     team_metrics |-> returned[1].team_metrics,
                     entity_type |-> entity[1], entity_id |-> entity[2],
                     result |-> result])
    /\ UNCHANGED <<processing_status, tasks, user_scores, data_processor, response,
                   user_metrics, scaler, scorers, data, team_calls,
                   advanced_insights_engine>>

InsightNext == GenerateInsights \/ GetInsights

InsightSpec == InsightInit /\ [][InsightNext]_vars

(***************************************************************************)
(* get_user_scores called repeatedly on an engine                          *)
(***************************************************************************)
\* sort_values('overall_score', ascending=False), line 191: a new frame with
\* the rows in descending order of overall_score; the default quicksort
\* leaves the order of rows with equal scores open
sort_values(rows) ==
    {Tuple([k \in 1..Len(rows) |-> rows[perm[k]]]) :
        perm \in {f \in [1..Len(rows) -> 1..Len(rows)] :
                    /\ \A i, j \in 1..Len(rows) : i # j => f[i] # f[j]
                    /\ \A i, j \in 1..Len(rows) :
                          i < j => rows[f[i]].overall_score >= rows[f[j]].overall_score}}

\* a bound of a Python slice on n rows: negative bounds count from the end
SliceBound(i, n) ==
    IF i < 0 THEN (IF n + i < 0 THEN 0 ELSE n + i)
    ELSE IF i > n THEN n ELSE i

\* iloc[start:stop], line 194
iloc(rows, start, stop) ==
    SubSeq(rows, SliceBound(start, Len(rows)) + 1, SliceBound(stop, Len(rows)))

\* self.user_scores after line 191
user_scores_sorted_inplace(stored, sorted) == sorted

\* self.user_scores after line 191: sort_values returns a new frame and the
\* stored one is not assigned
user_scores_after_sort(stored, sorted) == stored

PageInit ==
    /\ processing_status = InitStatus
    /\ tasks = <<>>
    /\ insights_cache = <<>>
    /\ data_processor = [search_logs |-> FALSE, interactions |-> FALSE,
                         metadata |-> FALSE, user_metrics |-> FALSE]
    /\ response = 0
    /\ scorers = NoScorers
    /\ data = NoData
    /\ kmeans = {}
    /\ team_calls = <<>>
    /\ advanced_insights_engine = AdvancedInsightsEngine
    /\ returned = <<>>
    /\ \E table \in TeamTables :
          /\ user_metrics = table
          /\ \/ /\ user_scores = Published(calculate_all_scores(table, Now(0, "direct")))
                /\ scaler = ScalerAfter(table)
             \/ /\ user_scores = NoScores
                /\ scaler = Unfitted

\* get_user_scores(limit, offset), lines 184-201; with no table yet, lines
\* 187-188 score the features of the data files first. Only the latest call
\* is kept
GetUserScores ==
    \E limit, offset \in -1..MaxPage :
        LET stored == IF user_scores.present
                      THEN user_scores.rows
                      ELSE calculate_all_scores(user_metrics, Now(1, "calc"))
        IN  \E sorted_scores \in sort_values(stored) :
              /\ user_scores' = Published(user_scores_after_sort(stored, sorted_scores))
              /\ scaler' = IF user_scores.present THEN scaler
                           ELSE ScalerAfter(user_metrics)
              /\ returned' = <<[call |-> "get_user_scores",
                                limit |-> limit, offset |-> offset,
                                before |-> user_scores,
                                result |-> iloc(sorted_scores, offset, offset + limit)]>>
              /\ UNCHANGED <<processing_status, tasks, insights_cache, data_processor,
                             response, user_metrics, scorers, data, kmeans,
                             team_calls, advanced_insights_engine>>

PageNext == GetUserScores

PageSpec == PageInit /\ [][PageNext]_vars

(***************************************************************************)
(* Properties                                                              *)
(***************************************************************************)
Rows == user_scores.rows
Users == 1..Len(Rows)
InFlight == {i \in 1..Len(tasks) : tasks[i].pc # "done"}

\* C1: at most one pipeline run is in flight: a trigger that arrives while an
\* accepted run has not yet reached completed or error schedules no second
\* background task
C1_AtMostOneRunInFlight == Cardinality(InFlight) <= 1

\* C2: a trigger rejected with 409 (which happens exactly when the status is
\* 'processing') leaves processing_status, the scheduled tasks, user_scores
\* and the insight cache unchanged
C2_RejectionChangesNothing ==
    [][(response' # response
          /\ (response' = 409 \/ processing_status.status = "processing"))
       => /\ response' = 409
          /\ processing_status.status = "processing"
          /\ UNCHANGED <<processing_status, tasks, user_scores, insights_cache>>]_vars

C2_Witness ==
    /\ response = 409
    /\ processing_status.status = "processing"
    /\ \E i \in 1..Len(tasks) : tasks[i].pc = "insights"

\* C3: a score run that ended with status error, or in which a step after
\* calculate_all_scores failed, leaves user_scores and insights_cache as they
\* were before the run started
C3_FailedRunPublishesNothing ==
    \A i \in 1..Len(tasks) :
        (/\ tasks[i].kind = "score"
         /\ tasks[i].pc = "done"
         /\ (tasks[i].outcome = "error" \/ "insight generation" \in tasks[i].logged))
        => /\ user_scores = tasks[i].scores_before
           /\ insights_cache = tasks[i].cache_before

\* C4: a run in which a pillar scorer, team clustering or insight generation
\* raised never ends with status completed
C4_FailureAbortsRun ==
    \A i \in 1..Len(tasks) :
        tasks[i].logged # {} => tasks[i].outcome # "completed"

\* C5: every accepted trigger's run ends: whenever a run is scheduled or in
\* flight, eventually none is, and the status is then completed or error
C5_EveryRunEnds ==
    (InFlight # {})
    ~> (InFlight = {} /\ processing_status.status \in {"completed", "error"})

C5_Witness ==
    /\ Len(tasks) = MaxTasks
    /\ \A i \in 1..Len(tasks) : tasks[i].pc = "done"
    /\ \E i \in 1..Len(tasks) : tasks[i].outcome = "error"
    /\ \E i \in 1..Len(tasks) : tasks[i].outcome = "completed"

\* C6: once the status is error no pipeline step executes and the status
\* stays error until a new trigger, and a new trigger is then accepted
C6_NoStepAfterError ==
    [][processing_status.status = "error"
       => /\ \A i \in 1..Len(tasks) :
                tasks'[i] # tasks[i]
                => tasks[i].status_seen = processing_status.last_updated
          /\ processing_status' # processing_status => tasks' # tasks
          /\ response' # response => response' = 200]_vars

\* C7: the status is one of idle, processing, completed, error, the progress
\* is a percentage in [0,100], and before any trigger the status is idle
\* with progress 0
C7_StatusWellFormed ==
    /\ processing_status.status \in {"idle", "processing", "completed", "error"}
    /\ processing_status.progress \in 0..100
    /\ tasks = <<>> => processing_status.status = "idle"
                       /\ processing_status.progress = 0

C7_Witness ==
    /\ processing_status.status = "error"
    /\ processing_status.progress = 70

\* C8: every row's overall_score is 0.30 discovery + 0.25 collaboration
\* + 0.25 documentation + 0.20 reuse, and the four weights sum to 1.0
C8_OverallIsWeightedSum ==
    /\ \A u \in Users :
          Rows[u].overall_score =
              30 * Rows[u].discovery_score + 25 * Rows[u].collaboration_score
            + 25 * Rows[u].documentation_score + 20 * Rows[u].reuse_score
    /\ pillar_weights.discovery + pillar_weights.collaboration
         + pillar_weights.documentation + pillar_weights.reuse = 100

C8_Witness ==
    /\ user_scores.present
    /\ \E u \in Users :
          /\ Rows[u].discovery_score > Rows[u].collaboration_score
          /\ Rows[u].collaboration_score > 0
          /\ Rows[u].documentation_score > 0

AtOrBelow(u) == Cardinality({v \in Users : Rows[v].overall_score <= Rows[u].overall_score})
Below(u) == Cardinality({v \in Users : Rows[v].overall_score < Rows[u].overall_score})
Sharing(u) == Cardinality({v \in Users : Rows[v].overall_score = Rows[u].overall_score})

\* C9 as stated: percentile_rank(u) = 100 * |{v : overall(v) <= overall(u)}| / N,
\* ties included (percentile_rank is kept over the denominator 2N)
C9_PercentileIsShareAtOrBelow ==
    \A u \in Users : Rows[u].percentile_rank = 100 * 2 * AtOrBelow(u)

\* C9 amended: percentile_rank(u) is 100/N times the average rank of u's
\* score, (|{v <= u}| + |{v < u}| + 1) / 2; it is the share at or below
\* exactly for a user whose overall score no other user has
C9_PercentileIsAverageRank ==
    \A u \in Users :
        /\ Rows[u].percentile_rank = 100 * (AtOrBelow(u) + Below(u) + 1)
        /\ (Rows[u].percentile_rank = 100 * 2 * AtOrBelow(u)) <=> (Sharing(u) = 1)

C9_Witness ==
    /\ user_scores.present
    /\ \E u, v, w \in Users :
          /\ u # v
          /\ Rows[u].overall_score = Rows[v].overall_score
          /\ Rows[w].overall_score > Rows[u].overall_score

IsMax(u) == \A v \in Users : Rows[v].overall_score <= Rows[u].overall_score

\* C10: percentile_rank is non-decreasing in overall_score, equal scores get
\* equal ranks, every rank is in [0,100], a sole maximum gets exactly 100
\* and k users sharing the maximum get 100 * (N - (k-1)/2) / N
C10_PercentileMonotone ==
    \A u \in Users :
        /\ \A v \in Users :
              Rows[u].overall_score <= Rows[v].overall_score
              => Rows[u].percentile_rank <= Rows[v].percentile_rank
        /\ Rows[u].percentile_rank \in 0..(100 * 2 * Len(Rows))
        /\ IsMax(u) =>
              Rows[u].percentile_rank = 100 * (2 * Len(Rows) - (Sharing(u) - 1))

C10_Witness ==
    /\ user_scores.present
    /\ \E u, v, w \in Users :
          /\ u # v
          /\ IsMax(u) /\ IsMax(v)
          /\ Rows[w].overall_score < Rows[u].overall_score

Pillars == {"discovery_score", "collaboration_score", "documentation_score",
            "reuse_score"}

\* C11: for every feature table, missing, negative and huge values included,
\* each pillar scorer returns one score per user, and every score is a
\* number in [0,100]
C11_PillarScoresInRange ==
    user_scores.present =>
        \A p \in Pillars :
            /\ Len(Rows[p]) = Len(user_metrics)
            /\ \A u \in 1..Len(Rows[p]) : Rows[p][u] \in 0..(100 * ScoreUnit)

\* reuse_ratio = total_sessions / (total_unique_records + 1), in 1/NormScale
ReuseRatio(table) ==
    Tuple([i \in 1..Len(table) |->
        (table[i].total_sessions * NormScale) \div (table[i].total_unique_records + 1)])

ReuseFormula(table) ==
    WeightedScores(<<MinMaxColumn(ReuseRatio(table)),
                     MinMaxColumn(Column(table, "sessions_per_day")),
                     MinMaxColumn(Column(table, "activity_span_days"))>>,
                   <<50, 30, 20>>)

\* C12: the reuse score of every user is 100 * (0.50 n(reuse_ratio)
\* + 0.30 n(sessions_per_day) + 0.20 n(activity_span_days)) clipped to
\* [0,100]; when users differ in these features the reuse scores are not
\* all equal
C12_ReuseScoreFormula ==
    user_scores.present =>
        /\ \A u \in Users : Rows[u].reuse_score = ReuseFormula(user_metrics)[u]
        /\ (\E u, v \in Users :
                user_metrics[u].sessions_per_day # user_metrics[v].sessions_per_day)
           => \E u, v \in Users : Rows[u].reuse_score # Rows[v].reuse_score

Constant(column) == Cardinality(ColumnValues(column)) <= 1

\* the weighted sum of the normalised columns that are not constant
SumOfVarying(columns, weights, u) ==
    SumSeq(Tuple([k \in 1..Len(weights) |->
        IF Constant(columns[k]) THEN 0
        ELSE weights[k]
               * (((columns[k][u] - MinOf(ColumnValues(columns[k]))) * NormScale)
                   \div (MaxOf(ColumnValues(columns[k])) - MinOf(ColumnValues(columns[k]))))]))

SelectedColumns(features) ==
    Tuple([k \in 1..Len(features) |-> Column(user_metrics, features[k])])

\* C13: a feature column that is constant across the batch contributes
\* exactly 0 to every user's pillar score (no scorer fails on it), and a
\* batch in which every selected feature is constant gets pillar score 0
C13_ConstantColumnContributesZero ==
    user_scores.present =>
        \A u \in Users :
            /\ Rows[u].discovery_score
                  = SumOfVarying(discovery_columns(user_metrics), discovery_weights, u)
            /\ Rows[u].collaboration_score
                  = SumOfVarying(SelectedColumns(collaboration_features),
                                 collaboration_weights, u)
            /\ Rows[u].documentation_score
                  = SumOfVarying(SelectedColumns(documentation_features),
                                 documentation_weights, u)
            /\ (\A k \in 1..Len(reuse_selected) :
                    Constant(Column(user_metrics, reuse_selected[k])))
               => Rows[u].reuse_score = 0

C13_Witness ==
    /\ user_scores.present
    /\ Len(Rows) >= 2
    /\ Constant(Column(user_metrics, "subject_diversity_score"))
    /\ ~Constant(Column(user_metrics, "avg_session_duration"))
    /\ \E u \in Users : Rows[u].documentation_score > 0
    /\ \E u \in Users : Rows[u].documentation_score < 60 * ScoreUnit

\* what a scorer returns when it runs alone on the table
Alone(p) ==
    CASE p = "discovery" -> _calculate_discovery_scores(user_metrics)
      [] p = "collaboration" -> _calculate_collaboration_scores(user_metrics)
      [] p = "documentation" -> _calculate_documentation_scores(user_metrics)
      [] p = "reuse" -> _calculate_reuse_scores(user_metrics)

CombinerWaits ==
    user_scores.present => \A p \in PillarNames : scorers[p].pc = "done"

\* C14: with the steps of the four scorers interleaved in any
\* order on one engine, each scorer returns the scores it returns alone,
\* and the combiner reads the results after all four have finished
C14_ScorersIndependent ==
    /\ \A p \in PillarNames :
          scorers[p].pc = "done" => scorers[p].result = Alone(p)
    /\ CombinerWaits

LabelsOf(items) == {items[i] : i \in 1..Len(items)}

\* C15: _calculate_diversity_index returns exactly 0 for an empty list and
\* for a list whose labels are all the same, never a negative value, and a
\* positive value exactly when at least two distinct labels occur
C15_DiversityIndexZeroOrPositive ==
    data.returned =>
        /\ data.items = <<>> => data.shannon_index = 0
        /\ Cardinality(LabelsOf(data.items)) = 1 => data.shannon_index = 0
        /\ data.shannon_index >= 0
        /\ data.shannon_index > 0 <=> Cardinality(LabelsOf(data.items)) >= 2

C15_Witness ==
    /\ data.returned
    /\ Len(data.items) >= 3
    /\ Cardinality(LabelsOf(data.items)) = 2
    /\ data.shannon_index > 0

SessionsOf(user_id) == {x \in data.processed_interactions : x.user_id = user_id}

\* C16: every user of calculate_user_metrics has activity_span_days >= 1
\* (exactly 1 with a single session or with all session starts within 24
\* hours of the first), total_sessions >= 1 and sessions_per_day =
\* total_sessions / activity_span_days
C16_ActivitySpanAtLeastOneDay ==
    \A m \in data.user_metrics :
        /\ m.activity_span_days >= 1
        /\ m.total_sessions >= 1
        /\ m.sessions_per_day = (m.total_sessions * 100) \div m.activity_span_days
        /\ (\/ m.total_sessions = 1
            \/ \A x, y \in SessionsOf(m.user_id) :
                  x.session_start - y.session_start < 24)
           => m.activity_span_days = 1

BadTimestamp(record) == record.timestamp \in {NaN, Malformed}

\* C17: a log record whose timestamp is missing or malformed is dropped and
\* loading goes on: load_search_logs does not abort, the record is in no
\* session, and a session all of whose records were dropped has no summary
C17_BadTimestampDropped ==
    /\ data.pc # "raised"
    /\ data.pc \in {"loaded", "processed", "metrics"} =>
          /\ \A i \in 1..Len(data.search_logs_df) :
                data.search_logs_df[i].timestamp # NaT
          /\ \A i \in 1..Len(data.log_file) :
                ~BadTimestamp(data.log_file[i]) =>
                    \E j \in 1..Len(data.search_logs_df) :
                        data.search_logs_df[j].record_id = data.log_file[i].record_id
    /\ \A x \in data.processed_interactions :
          /\ \E i \in 1..Len(data.log_file) :
                /\ data.log_file[i].session_no = x.session_no
                /\ ~BadTimestamp(data.log_file[i])
          /\ x.unique_records
                = Cardinality({i \in 1..Len(data.log_file) :
                      /\ data.log_file[i].session_no = x.session_no
                      /\ ~BadTimestamp(data.log_file[i])})

\* C18: a population of N users is clustered into max(2, min(8, N div 5))
\* teams; the cluster with index i becomes team "team_<i+1 in two digits>"
\* with the i-th name of the pool and the users labelled i as members; and
\* two calls on the same score table return the same assignment.
ExpectedTeamIds ==
    <<"team_01", "team_02", "team_03", "team_04",
      "team_05", "team_06", "team_07", "team_08">>
ExpectedTeamNames ==
    <<"Data Explorers", "Analytics Team", "Research Group", "Insights Squad",
      "Data Scientists", "Business Intelligence", "Data Engineers", "ML Team">>
ExpectedClusters(n) ==
    LET m == IF n \div 5 > 8 THEN 8 ELSE n \div 5
    IN  IF m > 2 THEN m ELSE 2
LabelledAs(labels, i) ==
    SelectSeq(Tuple([u \in 1..Len(Rows) |-> IF labels[u] = i THEN Rows[u].user_id ELSE 0]),
              LAMBDA id : id # 0)
C18_TeamAssignmentByClusterIndex ==
    /\ \A n \in 0..MaxPopulation : NumTeams(n) = ExpectedClusters(n)
    /\ \A i \in 0..7 : /\ team_id_of(i) = ExpectedTeamIds[i + 1]
                        /\ team_names[i + 1] = ExpectedTeamNames[i + 1]
    /\ \A c \in 1..Len(team_calls) :
          /\ team_calls[c].n_teams = ExpectedClusters(Len(Rows))
          /\ team_calls[c].teams # <<>> =>
                /\ Len(team_calls[c].teams) = ExpectedClusters(Len(Rows))
                /\ \E e \in kmeans :
                      /\ e.features = Features(Rows)
                      /\ \A i \in 0..(ExpectedClusters(Len(Rows)) - 1) :
                            /\ team_calls[c].teams[i + 1].team_id = ExpectedTeamIds[i + 1]
                            /\ team_calls[c].teams[i + 1].name = ExpectedTeamNames[i + 1]
                            /\ team_calls[c].teams[i + 1].members = LabelledAs(e.labels, i)
          /\ \A d \in 1..Len(team_calls) : team_calls[d] = team_calls[c]

C18_Witness ==
    /\ Len(team_calls) >= 2
    /\ Len(Rows) = 4
    /\ Cardinality(KMeansLabels(Features(Rows), NumTeams(Len(Rows)))) > 1
    /\ \A k \in 1..Len(team_calls[1].teams) : team_calls[1].teams[k].members # <<>>
    /\ team_calls[1].teams # <<>>

\* C19: for a score table of exactly 4 users, every call of get_team_metrics
\* returns at least 2 teams, each with a member_count of at least 1.
C19_FourUsersGiveTwoTeams ==
    \A c \in 1..Len(team_calls) :
        Len(Rows) = 4 =>
            /\ Len(team_calls[c].team_metrics) >= 2
            /\ \A k \in 1..Len(team_calls[c].team_metrics) :
                  team_calls[c].team_metrics[k].member_count >= 1

\* C20: analyze_user_patterns on fewer than 5 users and
\* predict_performance_trends on fewer than 10 users return the
\* insufficient-data value and neither fit the scaler, cluster nor train a
\* model; on 5 and 10 users or more they return an analysis, not an error.
IsError(result) == "error" \in DOMAIN result
C20_InsufficientDataBelowThreshold ==
    LET n == Len(advanced_insights_engine.user_data)
    IN  /\ advanced_insights_engine.patterns # <<>> =>
              IF n < 5
              THEN /\ advanced_insights_engine.patterns[1] =
                          [error |-> "Insufficient data for pattern analysis"]
                   /\ ~advanced_insights_engine.scaler_fitted
                   /\ kmeans = {}
              ELSE ~IsError(advanced_insights_engine.patterns[1])
        /\ advanced_insights_engine.trends # <<>> =>
              IF n < 10
              THEN /\ advanced_insights_engine.trends[1] =
                          [error |-> "Insufficient data for trend prediction"]
                   /\ ~advanced_insights_engine.performance_model
              ELSE ~IsError(advanced_insights_engine.trends[1])

\* the calls of generate_insights that have returned
Generated == {c \in 1..Len(returned) : returned[c].call = "generate_insights"}

\* how many insights of a call's result were made from a template for a
\* kind of target
Emitted(c, insight_type, target_entity) ==
    Cardinality({k \in 1..Len(returned[c].result) :
        /\ returned[c].result[k].insight_type = insight_type
        /\ returned[c].result[k].target_entity = target_entity})

\* the sum of a column over the users of a call's score table
Total(c, col) ==
    SumSeq(Tuple([u \in 1..Len(returned[c].user_scores) |->
                    returned[c].user_scores[u][col]]))

\* C21: generate_insights emits the organization-level low_discovery insight
\* if and only if the mean discovery_score of the population is below 50.
C21_OrgLowDiscoveryOnDiscoveryMean ==
    \A c \in Generated :
        (Emitted(c, "low_discovery", "organization") = 1)
        <=> /\ Len(returned[c].user_scores) > 0
            /\ Total(c, "discovery_score")
                  < 50 * ScoreUnit * Len(returned[c].user_scores)

\* the overall scores of a call's score table in tenths of a point
OverallInTenths(c) ==
    Tuple([u \in 1..Len(returned[c].user_scores) |->
        returned[c].user_scores[u].overall_score \div (OverallUnit \div 10)])

\* the sample standard deviation of the overall scores is above 25:
\* (n * sum(x^2) - sum(x)^2) / (n * (n - 1)) > 25^2
SpreadAbove25(c) ==
    LET x == OverallInTenths(c)
        n == Len(x)
    IN  /\ n >= 2
        /\ n * SumSeq(Tuple([u \in 1..n |-> x[u] * x[u]])) - SumSeq(x) * SumSeq(x)
              > 250 * 250 * n * (n - 1)

\* C22: generate_insights emits the organization-level low_documentation
\* insight iff the mean documentation_score is below 50, the organization-
\* level low_reuse insight iff the mean reuse_score is below 45, and the
\* organization-level team_imbalance insight iff the standard deviation of
\* overall_score is above 25, each whatever the other two do.
C22_OrgRulesDecidedIndependently ==
    \A c \in Generated :
        LET n == Len(returned[c].user_scores)
        IN  /\ (Emitted(c, "low_documentation", "organization") = 1)
                  <=> (n > 0 /\ Total(c, "documentation_score") < 50 * ScoreUnit * n)
            /\ (Emitted(c, "low_reuse", "organization") = 1)
                  <=> (n > 0 /\ Total(c, "reuse_score") < 45 * ScoreUnit * n)
            /\ (Emitted(c, "team_imbalance", "organization") = 1)
                  <=> SpreadAbove25(c)
            /\ Emitted(c, "low_documentation", "organization") <= 1
            /\ Emitted(c, "low_reuse", "organization") <= 1
            /\ Emitted(c, "team_imbalance", "organization") <= 1

C22_Witness ==
    \E c \in Generated :
        /\ Len(returned[c].user_scores) = 2
        /\ Emitted(c, "low_documentation", "organization") = 1
        /\ Emitted(c, "low_reuse", "organization") = 0
        /\ Emitted(c, "team_imbalance", "organization") = 0

\* the users of a call's score table that a user-level rule matches
LowDiscoveryUsers(scores) ==
    {u \in 1..Len(scores) : scores[u].discovery_score < 40 * ScoreUnit}
HighPerformers(scores) ==
    {u \in 1..Len(scores) : scores[u].overall_score >= 80 * OverallUnit}
UnevenUsers(scores) ==
    {u \in 1..Len(scores) :
        \E p, q \in Pillars : scores[u][p] - scores[u][q] > 40 * ScoreUnit}

ExpectedGroupIds ==
    <<"group_1_users", "group_2_users", "group_3_users", "group_4_users",
      "group_5_users">>

\* the user-level insights among `insights` made from a template
UserLevel(insights, insight_type) ==
    SelectSeq(insights, LAMBDA i : /\ i.insight_type = insight_type
                                   /\ i.target_entity = "user")

\* one grouped insight that carries the number of matching users, or none
\* when no user matches
GroupedFor(insights, insight_type, matching) ==
    IF matching = {}
    THEN UserLevel(insights, insight_type) = <<>>
    ELSE /\ Len(UserLevel(insights, insight_type)) = 1
         /\ UserLevel(insights, insight_type)[1].target_id
                = ExpectedGroupIds[Cardinality(matching)]
         /\ UserLevel(insights, insight_type)[1].description[1] = Cardinality(matching)

\* five users whose discovery score mirrors their overall score
FiveUsers ==
    Tuple([u \in 1..5 |->
        [user_id |-> u,
         discovery_score |-> <<90, 80, 70, 41, 20>>[u] * ScoreUnit,
         collaboration_score |-> <<90, 80, 70, 41, 20>>[u] * ScoreUnit,
         documentation_score |-> <<90, 80, 70, 41, 20>>[u] * ScoreUnit,
         reuse_score |-> <<90, 80, 70, 41, 20>>[u] * ScoreUnit,
         overall_score |-> <<90, 80, 70, 41, 20>>[u] * OverallUnit,
         percentile_rank |-> 0,
         computed_at |-> Now(0, "direct")]])

\* C23: each user-level rule emits exactly one grouped insight when at least
\* one user matches and none otherwise (low_discovery: discovery_score < 40,
\* high_performer: overall_score >= 80, team_imbalance: max pillar - min
\* pillar > 40); its target_id and description carry the number of matching
\* users; for the overall scores 90, 80, 70, 41, 20 the high_performer group
\* counts 2 and the low_discovery group 1.
C23_UserRulesEmitOneGroupedInsight ==
    /\ \A c \in Generated :
          /\ GroupedFor(returned[c].result, "low_discovery",
                        LowDiscoveryUsers(returned[c].user_scores))
          /\ GroupedFor(returned[c].result, "high_performer",
                        HighPerformers(returned[c].user_scores))
          /\ GroupedFor(returned[c].result, "team_imbalance",
                        UnevenUsers(returned[c].user_scores))
    /\ UserLevel(_generate_user_insights(FiveUsers), "high_performer")[1].target_id
          = "group_2_users"
    /\ UserLevel(_generate_user_insights(FiveUsers), "low_discovery")[1].target_id
          = "group_1_users"
    /\ UserLevel(_generate_user_insights(FiveUsers), "team_imbalance") = <<>>

C23_Witness ==
    \E c \in Generated :
        /\ Cardinality(HighPerformers(returned[c].user_scores)) = 2
        /\ Cardinality(LowDiscoveryUsers(returned[c].user_scores)) = 0
        /\ Len(UserLevel(returned[c].result, "high_performer")) = 1

\* the team-level insights of a call's result made from a template for a team
ForTeam(c, insight_type, team_id) ==
    Cardinality({k \in 1..Len(returned[c].result) :
        /\ returned[c].result[k].target_entity = "team"
        /\ returned[c].result[k].insight_type = insight_type
        /\ returned[c].result[k].target_id = team_id})

TeamLevel(c) ==
    Cardinality({k \in 1..Len(returned[c].result) :
                    returned[c].result[k].target_entity = "team"})

\* the rules a team matches: mean overall score below 50, at least 75, and
\* collaboration index below 40
MatchingRules(team) ==
    (IF team.sum_neurascore < 50 * OverallUnit * team.member_count
     THEN {"low_discovery"} ELSE {})
    \cup (IF team.sum_neurascore >= 75 * OverallUnit * team.member_count
          THEN {"high_performer"} ELSE {})
    \cup (IF team.sum_collaboration < 40 * ScoreUnit * team.member_count
          THEN {"low_collaboration"} ELSE {})

\* C24: for every team of the team list, whatever the other teams and rules
\* do, generate_insights emits a team-level low_discovery insight iff
\* avg_neurascore < 50, a high_performer insight iff avg_neurascore >= 75
\* and a low_collaboration insight iff collaboration_index < 40; every
\* matching rule of every team has its insight and there is no other.
C24_TeamRulesAllEvaluated ==
    \A c \in Generated :
        /\ \A k \in 1..Len(returned[c].team_metrics) :
              \A rule \in {"low_discovery", "high_performer", "low_collaboration"} :
                  ForTeam(c, rule, returned[c].team_metrics[k].team_id)
                    = IF rule \in MatchingRules(returned[c].team_metrics[k]) THEN 1 ELSE 0
        /\ TeamLevel(c) =
              SumSeq(Tuple([k \in 1..Len(returned[c].team_metrics) |->
                        Cardinality(MatchingRules(returned[c].team_metrics[k]))]))

C24_Witness ==
    \E c \in Generated :
        /\ Len(returned[c].team_metrics) = 2
        /\ MatchingRules(returned[c].team_metrics[1]) = {"low_discovery"}
        /\ MatchingRules(returned[c].team_metrics[2]) = {"high_performer", "low_collaboration"}
        /\ TeamLevel(c) = 3

PriorityOf(impact_level) ==
    CASE impact_level = "high" -> 90
      [] impact_level = "medium" -> 60
      [] impact_level = "low" -> 30

\* a list is in descending order of priority_score, equal scores in the
\* order of generation (the second component of an id is the position at
\* which the insight was generated)
SortedByPriority(insights) ==
    \A i, j \in 1..Len(insights) :
        i < j => \/ insights[i].priority_score > insights[j].priority_score
                 \/ /\ insights[i].priority_score = insights[j].priority_score
                    /\ insights[i].id[2] < insights[j].id[2]

\* C25: the list returned by generate_insights and the list returned by
\* get_insights are sorted by priority_score descending with ties in
\* generation order, and every priority_score is 90, 60 or 30 for the impact
\* levels high, medium and low.
C25_ReturnedInsightsSortedByPriority ==
    \A c \in 1..Len(returned) :
        /\ SortedByPriority(returned[c].result)
        /\ \A k \in 1..Len(returned[c].result) :
              returned[c].result[k].priority_score
                  = PriorityOf(returned[c].result[k].impact_level)

\* what does hold: the same for the lists returned by get_insights only
GetInsightsSorted ==
    \A c \in 1..Len(returned) :
        /\ returned[c].call = "get_insights" => SortedByPriority(returned[c].result)
        /\ \A k \in 1..Len(returned[c].result) :
              returned[c].result[k].priority_score
                  = PriorityOf(returned[c].result[k].impact_level)

\* an insight without its id and created_at
Content(insight) ==
    [title |-> insight.title,
     description |-> insight.description,
     impact_level |-> insight.impact_level,
     target_entity |-> insight.target_entity,
     target_id |-> insight.target_id,
     action_items |-> insight.action_items,
     priority_score |-> insight.priority_score]

Contents(insights) == Tuple([k \in 1..Len(insights) |-> Content(insights[k])])

\* C26: two calls of generate_insights with the same user_scores and
\* team_metrics return lists of the same length with, position by position,
\* the same title, description, impact_level, target_entity, target_id,
\* action_items and priority_score, whatever the cache holds between them.
C26_GenerateInsightsIdempotent ==
    \A c, d \in Generated :
        /\ returned[c].user_scores = returned[d].user_scores
        /\ returned[c].team_metrics = returned[d].team_metrics
        => Contents(returned[c].result) = Contents(returned[d].result)

C26_Witness ==
    /\ Len(returned) = 2
    /\ Generated = {1, 2}
    /\ returned[2].no = 3
    /\ Len(returned[1].result) >= 3
    /\ returned[1].result # returned[2].result
    /\ insights_cache = returned[2].result
    /\ ~SortedByPriority(returned[2].result)

\* the arrangements of a table in descending order of overall_score
Descending(rows) ==
    {arranged \in [1..Len(rows) -> {rows[u] : u \in 1..Len(rows)}] :
        /\ \A u \in 1..Len(rows) : \E k \in 1..Len(rows) : arranged[k] = rows[u]
        /\ \A k \in 1..(Len(rows) - 1) :
              arranged[k].overall_score >= arranged[k + 1].overall_score}

StoredBefore(call) ==
    IF call.before.present THEN call.before.rows ELSE user_scores.rows

\* C27: get_user_scores(limit, offset), for a limit and an offset that are
\* not negative, returns the rows at positions offset .. offset+limit-1 of
\* the score table in descending order of overall_score, and leaves the stored
\* table as it was: the same rows in the same order.
C27_PageOfSortedScoresStoredUnchanged ==
    \A c \in 1..Len(returned) :
        /\ returned[c].before.present => user_scores = returned[c].before
        /\ (returned[c].limit >= 0 /\ returned[c].offset >= 0) =>
              \E arranged \in Descending(StoredBefore(returned[c])) :
                  /\ Len(returned[c].result) =
                        Cardinality({k \in 1..Len(arranged) :
                            /\ k - 1 >= returned[c].offset
                            /\ k - 1 <= returned[c].offset + returned[c].limit - 1})
                  /\ \A k \in 1..Len(returned[c].result) :
                        returned[c].result[k] = arranged[returned[c].offset + k]

C27_Witness ==
    /\ returned # <<>>
    /\ returned[1].before.present
    /\ returned[1].offset = 1
    /\ returned[1].limit = 2
    /\ Len(returned[1].result) = 2
    /\ returned[1].result[1] # user_scores.rows[2]
    /\ returned[1].result[1].overall_score > returned[1].result[2].overall_score

\* the returned teams of a call that have the user with an id as a member
TeamsOf(call, id) ==
    {k \in 1..Len(call.team_metrics) : id \in call.team_metrics[k].members}

\* the sum of a score column over the users with the given ids
SumOver(ids, col) ==
    SumSeq(Tuple([u \in 1..Len(Rows) |->
                    IF Rows[u].user_id \in ids THEN Rows[u][col] ELSE 0]))

\* C28: for a score table of at least 2 users with distinct ids,
\* get_team_metrics returns teams such that every user is a member of
\* exactly one of them, the member counts add up to the population, no team
\* is empty, and each team's averages are the means over its members.
C28_TeamsPartitionPopulation ==
    \A c \in 1..Len(team_calls) :
        Len(Rows) >= 2 =>
            /\ \A u \in Users : Cardinality(TeamsOf(team_calls[c], Rows[u].user_id)) = 1
            /\ SumSeq(Tuple([k \in 1..Len(team_calls[c].team_metrics) |->
                    team_calls[c].team_metrics[k].member_count])) = Len(Rows)
            /\ \A k \in 1..Len(team_calls[c].team_metrics) :
                  LET team == team_calls[c].team_metrics[k]
                  IN  /\ team.member_count >= 1
                      /\ team.member_count = Cardinality(team.members)
                      /\ team.sum_neurascore = SumOver(team.members, "overall_score")
                      /\ team.sum_discovery = SumOver(team.members, "discovery_score")
                      /\ team.sum_collaboration = SumOver(team.members, "collaboration_score")
                      /\ team.sum_documentation = SumOver(team.members, "documentation_score")
                      /\ team.sum_reuse = SumOver(team.members, "reuse_score")

\* what does hold: the same for the score tables in which no score is nan
PartitionWhenScored ==
    (\A u \in Users : Rows[u].discovery_score # NaN) => C28_TeamsPartitionPopulation

\* the pillar scorers that end in their except branch on a table
FailedPillars(table) ==
    {"reuse"}
    \cup (IF \/ ~HasColumns(table, discovery_features)
             \/ \E i \in 1..Len(table) : table[i].total_sessions = -1
          THEN {"discovery"} ELSE {})
    \cup (IF ~HasColumns(table, collaboration_features)
          THEN {"collaboration"} ELSE {})
    \cup (IF ~HasColumns(table, documentation_features)
          THEN {"documentation"} ELSE {})

ScoreColumn(pillar) ==
    CASE pillar = "discovery" -> "discovery_score"
      [] pillar = "collaboration" -> "collaboration_score"
      [] pillar = "documentation" -> "documentation_score"
      [] pillar = "reuse" -> "reuse_score"

\* the weighted sum of the pillar scores of a row whose scorer did not fail
SumOfRemaining(row, failed) ==
    LET term(pillar) == IF pillar \in failed
                        THEN 0
                        ELSE row[ScoreColumn(pillar)] * pillar_weights[pillar]
    IN  term("discovery") + term("collaboration") + term("documentation")
        + term("reuse")

\* C29: a pillar scorer that fails returns zeros, one per input user, and
\* calculate_all_scores publishes a table with one row per input user, in
\* the order of the input, whose overall_score is the weighted sum of the
\* pillars that did not fail.
C29_FailedScorerGivesZeros ==
    user_scores.present =>
        /\ Len(Rows) = Len(user_metrics)
        /\ \A u \in Users :
              /\ Rows[u].user_id = user_metrics[u].user_id
              /\ \A pillar \in FailedPillars(user_metrics) :
                    Rows[u][ScoreColumn(pillar)] = 0
              /\ Rows[u].overall_score =
                    SumOfRemaining(Rows[u], FailedPillars(user_metrics))

\* a table without the column total_sessions is scored: discovery and reuse
\* are zero for both users and one of them has a positive overall score
C29_Witness ==
    /\ user_scores.present
    /\ Len(Rows) = 2
    /\ "total_sessions" \notin DOMAIN user_metrics[1]
    /\ FailedPillars(user_metrics) = {"discovery", "reuse"}
    /\ \E u \in Users : Rows[u].overall_score > 0

\* the background tasks that have started and not ended
Running == {i \in 1..Len(tasks) : tasks[i].pc \notin {"pending", "done"}}

\* C30: whenever the status is completed the progress is 100, and while a
\* run is in flight no step lowers the progress
C30_CompletedMeansFullProgress ==
    /\ [](processing_status.status = "completed"
            => processing_status.progress = 100)
    /\ [][Running # {}
            => processing_status'.progress >= processing_status.progress]_vars

\* what does hold: the same as long as a single trigger has been accepted
ProgressOfSingleRun ==
    /\ [](Len(tasks) <= 1 /\ processing_status.status = "completed"
            => processing_status.progress = 100)
    /\ [][Len(tasks') <= 1 /\ Running # {}
            => processing_status'.progress >= processing_status.progress]_vars

====
